---- MODULE Spec2Model ----
(***************************************************************************)
(* A model of the instance lifecycle of libmuscle's ComputeElement         *)
(* (libmuscle/python/libmuscle/compute_element.py): the reuse loop, the    *)
(* pre-receive cache for F_INIT ports, the parameter overlay and the close *)
(* protocol.  The peers of the instance are the environment: a blocking    *)
(* receive on a connected port returns any message a peer can have put on  *)
(* the wire.                                                               *)
(***************************************************************************)
EXTENDS FiniteSets, Integers, Sequences, TLC

\* ------------------------------------------------------------------ bounds
MaxLen == 2          \* largest length of a vector port
MaxCalls == 2        \* number of reuse_instance calls of one run
MaxDrain == 1        \* messages a peer still sends before its ClosePort
MaxSlots == 2        \* connected receiving slots of the instance
MaxSend == 2         \* messages a sender sends on one port in one loop body
MaxMult == 2         \* instances of meso, and rows of instances of micro
MaxIterations == 3   \* iterations of the loop body of macro
MaxPolls == 2        \* request_peers calls of one instance that are answered PENDING

\* ------------------------------------------------------------ data model
NoSlot == 0 - 1      \* Python's slot=None

\* A Configuration is a mapping; it is modelled by its graph, a set of
\* <<key, value>> pairs with distinct keys.
EmptyConfiguration == {}
NoneConfiguration == {<<"None", 0>>}     \* message.configuration is None

A1 == {<<"a", 1>>}
A2 == {<<"a", 2>>}
B2 == {<<"b", 2>>}

Keys(configuration) == {p[1] : p \in configuration}

Message(timestamp, next_timestamp, data, configuration) ==
    [timestamp |-> timestamp, next_timestamp |-> next_timestamp,
     data |-> data, configuration |-> configuration]

ClosePort == [kind |-> "ClosePort", val |-> {}]
ConfigurationData(c) == [kind |-> "Configuration", val |-> c]
Value(v) == [kind |-> "Value", val |-> {<<"v", v>>}]

NoMessage == Message(0, NoSlot, [kind |-> "None", val |-> {}], NoneConfiguration)

\* Operators of ymmsl and their two predicates.
Operators == {"F_INIT", "O_I", "S", "B", "O_F"}
allows_sending(operator) == operator \in {"O_I", "O_F"}
allows_receiving(operator) == operator \in {"F_INIT", "S", "B"}

\* The ports an instance can declare, in the order list_ports() yields them.
PortOrder == <<"in", "in2", "oi", "s", "out">>
PortNames == {PortOrder[i] : i \in 1..Len(PortOrder)}
\* libmuscle's Port.  A scalar port has length 1.
Port(operator, is_vector, length, connected) ==
    [operator |-> operator, is_vector |-> is_vector, length |-> length,
     connected |-> connected]

PortsOf(p) ==
    CASE p = "oi" -> {Port("O_I", FALSE, 1, TRUE)}
      [] p = "out" -> {Port("O_F", TRUE, MaxLen, TRUE)}
      [] p = "in2" -> {Port("F_INIT", FALSE, 1, c) : c \in BOOLEAN}
      [] p = "in" -> {Port("F_INIT", FALSE, 1, c) : c \in BOOLEAN}
                     \cup {Port("F_INIT", TRUE, n, TRUE) : n \in 1..MaxLen}
      [] OTHER -> {Port("S", FALSE, 1, c) : c \in BOOLEAN}
                  \cup {Port("B", FALSE, 1, TRUE)}
                  \cup {Port("S", TRUE, n, TRUE) : n \in 1..MaxLen}

\* The slots of all connected receiving ports of a topology together.
ReceivingSlots(pp) ==
    LET n(p) == IF allows_receiving(pp[p].operator) /\ pp[p].connected
                THEN pp[p].length ELSE 0
    IN  n("in") + n("in2") + n("s")

\* ------------------------------------------------------------------ state
VARIABLES
    ports,              \* the communicator's ports: name -> Port
    parameters_in,      \* whether muscle_parameters_in is connected
    overlay,            \* _configuration_store.overlay
    first_run,          \* _first_run
    f_init_cache,       \* _f_init_cache: <<port_name, slot>> -> Message
    pc,                 \* position of the user thread
    apply_overlay,      \* the argument this program's loop passes to
                        \* reuse_instance
    do_reuse,           \* local do_reuse of the call in progress
    cursor,             \* loop position inside pre-receive and the drains
    registered,         \* whether the manager has this instance registered
    is_shut_down,       \* whether _communicator.shutdown() has been called
    calls,              \* number of reuse_instance calls started
    results,            \* return values of the completed reuse_instance calls
    trace,              \* communicator and manager calls of the current call
    parameters_message, \* the message the parameters step of this call got
    pre_received,       \* messages pre-received in this call, in order
    seen_close,         \* <<port, slot>> a ClosePort was received on
    error,              \* the exception the last operation raised, if any
    last,               \* the last user receive: its arguments and outcome
    tried,              \* keys of connected F_INIT ports the user has
                        \* received on in this cycle
    handed,             \* F_INIT keys handed to the user in this cycle, counted
    sent,               \* the last call of Communicator.send_message
    elements,           \* a network of instances: name -> its ComputeElement
                        \* and the position of its program
    outboxes,           \* receiver reference -> messages not yet retrieved
    deposited,          \* receiver reference -> all messages deposited for it
    retrieved,          \* receiver reference -> all messages it retrieved
    registry,           \* the manager's InstanceRegistry
    response,           \* the manager's answer to the last request
    model,              \* the model description the manager was started with
    clients             \* instance name -> how far its start-up has come

vars == <<ports, parameters_in, overlay, first_run, f_init_cache, pc,
          apply_overlay, do_reuse, cursor, registered, is_shut_down, calls,
          results, trace, parameters_message, pre_received, seen_close,
          error, last, tried, handed, sent, elements, outboxes, deposited,
          retrieved, registry, response, model, clients>>

\* The variables of the one instance, of the network of instances and of
\* the manager.
instance == <<ports, parameters_in, overlay, first_run, f_init_cache, pc,
              apply_overlay, do_reuse, cursor, registered, is_shut_down,
              calls, results, trace, parameters_message, pre_received,
              seen_close, error, last, tried, handed, sent>>
network == <<elements, outboxes, deposited, retrieved>>
manager == <<registry, response, model, clients>>

\* The wiring, which a run never changes.
topology == <<ports, parameters_in>>

NoCursor == [i |-> 0, slot |-> NoSlot, head_closed |-> FALSE, drained |-> 0]
NoLast == [op |-> "none", port_name |-> "", slot |-> NoSlot,
           default |-> NoMessage, status |-> "none", message |-> NoMessage]
NoSent == [port_name |-> "", slot |-> NoSlot, message |-> NoMessage,
           caller |-> NoMessage, resent |-> FALSE]
NoResponse ==
    [request |-> "none", name |-> [kernel |-> "", index |-> <<>>],
     arguments |-> <<>>, status |-> "none",
     error_message |-> [text |-> "", name |-> [kernel |-> "", index |-> <<>>]],
     conduits |-> <<>>, peer_dimensions |-> {}, peer_locations |-> {}]

\* No network of instances and no manager are looked at.
NoNetwork ==
    /\ elements = <<>>
    /\ outboxes = <<>>
    /\ deposited = <<>>
    /\ retrieved = <<>>

NoManager ==
    /\ registry = <<>>
    /\ response = NoResponse
    /\ model = "none"
    /\ clients = <<>>

\* The one instance is not looked at.
NoInstance ==
    /\ ports = <<>>
    /\ parameters_in = FALSE
    /\ overlay = EmptyConfiguration
    /\ first_run = TRUE
    /\ f_init_cache = <<>>
    /\ pc = "none"
    /\ apply_overlay = TRUE
    /\ do_reuse = FALSE
    /\ cursor = NoCursor
    /\ registered = FALSE
    /\ is_shut_down = FALSE
    /\ calls = 0
    /\ results = <<>>
    /\ trace = <<>>
    /\ parameters_message = NoMessage
    /\ pre_received = <<>>
    /\ seen_close = {}
    /\ error = "none"
    /\ last = NoLast
    /\ tried = {}
    /\ handed = <<>>
    /\ sent = NoSent

\* The state after ComputeElement.__init__: registered and connected, nothing
\* received yet.
Init ==
    /\ \E a \in PortsOf("in"), b \in PortsOf("in2"), c \in PortsOf("oi"),
          d \in PortsOf("s"), e \in PortsOf("out") :
            ports = [p \in PortNames |->
                       CASE p = "in" -> a [] p = "in2" -> b [] p = "oi" -> c
                         [] p = "s" -> d [] OTHER -> e]
    /\ ReceivingSlots(ports) <= MaxSlots
    /\ parameters_in \in BOOLEAN
    /\ overlay = EmptyConfiguration
    /\ first_run = TRUE
    /\ f_init_cache = <<>>
    /\ pc = "user"
    /\ apply_overlay \in BOOLEAN
    /\ do_reuse = FALSE
    /\ cursor = NoCursor
    /\ registered = TRUE
    /\ is_shut_down = FALSE
    /\ calls = 0
    /\ results = <<>>
    /\ trace = <<>>
    /\ parameters_message = NoMessage
    /\ pre_received = <<>>
    /\ seen_close = {}
    /\ error = "none"
    /\ last = NoLast
    /\ tried = {}
    /\ handed = <<>>
    /\ sent = NoSent
    /\ NoNetwork
    /\ NoManager

\* ---------------------------------------------------------- communicator
\* What a blocking Communicator.receive_message can return on a connected
\* port: on the wire the configuration is always present.
OverlaysOnWire == {EmptyConfiguration, A1, A2}

PortMessages ==
    {Message(0, NoSlot, Value(1), c) : c \in OverlaysOnWire}
    \cup {Message(0, NoSlot, ClosePort, EmptyConfiguration)}

ParametersMessages ==
    {Message(0, NoSlot, ConfigurationData(d), A1) : d \in {A2, B2}}
    \cup {Message(0, NoSlot, ConfigurationData(A2), EmptyConfiguration),
          Message(0, NoSlot, ClosePort, EmptyConfiguration),
          Message(0, NoSlot, Value(1), EmptyConfiguration)}

\* The messages a peer sends while the instance only drains the port.
DrainMessages ==
    {Message(0, NoSlot, d, EmptyConfiguration) : d \in {Value(1), ClosePort}}

\* Communicator.list_ports().get(operator, []), in list order.
list_ports(operators) ==
    SelectSeq(PortOrder, LAMBDA p : ports[p].operator \in operators)

\* One entry of the communicator and manager calls a reuse_instance call
\* makes: who called, on which port, addressed to which slot.
Event(kind, port_name, slot) == <<kind, port_name, slot>>

RECURSIVE Flatten(_)
Flatten(seqs) ==
    IF seqs = <<>> THEN <<>> ELSE Head(seqs) \o Flatten(Tail(seqs))

\* ----------------------------------------------------- pieces of the code
isinstance_ClosePort(message) == message.data.kind = "ClosePort"

\* merge_configuration with the attached configuration written over the
\* payload.
merge_configuration_attached_wins(configuration, data) ==
    {p \in data : p[1] \notin Keys(configuration)} \cup configuration

\* for key, value in message.data.items(): configuration[key] = value
merge_configuration(configuration, data) ==
    {p \in configuration : p[1] \notin Keys(data)} \cup data

\* receive_parameters that updates the overlay it has.
receive_parameters_into_overlay(message, current_overlay) == IF isinstance_ClosePort(message) THEN [raises |-> FALSE, answer |-> FALSE, overlay |-> current_overlay] ELSE IF message.data.kind # "Configuration" THEN [raises |-> TRUE, answer |-> FALSE, overlay |-> current_overlay] ELSE [raises |-> FALSE, answer |-> TRUE, overlay |-> merge_configuration(current_overlay, message.data.val)]

\* receive_parameters that empties the overlay on a ClosePort.
receive_parameters_close_resets(message, current_overlay) == IF isinstance_ClosePort(message) THEN [raises |-> FALSE, answer |-> FALSE, overlay |-> EmptyConfiguration] ELSE IF message.data.kind # "Configuration" THEN [raises |-> TRUE, answer |-> FALSE, overlay |-> current_overlay] ELSE [raises |-> FALSE, answer |-> TRUE, overlay |-> merge_configuration(message.configuration, message.data.val)]

\* receive_parameters without the isinstance test of the payload.
receive_parameters_unchecked(message, current_overlay) ==
    IF isinstance_ClosePort(message)
    THEN [raises |-> FALSE, answer |-> FALSE, overlay |-> current_overlay]
    ELSE [raises |-> FALSE, answer |-> TRUE,
          overlay |-> merge_configuration(message.configuration,
                                          message.data.val)]

\* __receive_parameters, after the receive: the answer, the overlay it
\* leaves and whether it raises.
receive_parameters(message, current_overlay) ==
    IF isinstance_ClosePort(message)
    THEN [raises |-> FALSE, answer |-> FALSE, overlay |-> current_overlay]
    ELSE IF message.data.kind # "Configuration"
    THEN [raises |-> TRUE, answer |-> FALSE, overlay |-> current_overlay]
    ELSE [raises |-> FALSE, answer |-> TRUE,
          overlay |-> merge_configuration(message.configuration,
                                          message.data.val)]

\* The default of the muscle_parameters_in receive.
default_message ==
    Message(0, NoSlot, ConfigurationData(EmptyConfiguration), EmptyConfiguration)

\* __apply_overlay: the overlay of the store afterwards.
apply_overlay_of(current_overlay, message) ==
    IF Cardinality(current_overlay) = 0
         /\ message.configuration # NoneConfiguration
    THEN message.configuration
    ELSE current_overlay

\* check_compatibility that accepts every attached overlay the current
\* one contains.
check_compatibility_contained(current_overlay, received) ==
    received = NoneConfiguration \/ received \subseteq current_overlay

\* __check_compatibility: TRUE when it returns, FALSE when it raises.
check_compatibility(current_overlay, received) ==
    received = NoneConfiguration \/ current_overlay = received

\* The slot the pre_receive closure hands to Communicator.receive_message
\* for the cache key (port_name, slot): it passes the port name only.
pre_receive_address(slot) == NoSlot

\* The (port_name, slot) keys __pre_receive_f_init receives for, in order.
pre_receive_keys(port_name) ==
    IF ~ports[port_name].connected THEN <<>>
    ELSE IF ~ports[port_name].is_vector THEN << <<port_name, NoSlot>> >>
    ELSE << <<port_name, 0>> >>
         \o [k \in 1..(ports[port_name].length - 1) |-> <<port_name, k>>]

pre_receive_f_init ==
    LET f_init == list_ports({"F_INIT"})
    IN  Flatten([i \in 1..Len(f_init) |-> pre_receive_keys(f_init[i])])

\* decide_reuse without the reset of _first_run.
decide_reuse_keeps_first_run(step1, first, f_init_not_connected, no_parameters_in, cache) ==
    IF f_init_not_connected /\ no_parameters_in
    THEN [do_reuse |-> first, first_run |-> first]
    ELSE [do_reuse |-> step1 /\ \A k \in DOMAIN cache :
                                   ~isinstance_ClosePort(cache[k]),
          first_run |-> first]

\* decide_reuse without the look into the cache.
decide_reuse_ignores_cache(step1, first, f_init_not_connected, no_parameters_in, cache) ==
    IF f_init_not_connected /\ no_parameters_in
    THEN [do_reuse |-> first, first_run |-> FALSE]
    ELSE [do_reuse |-> step1, first_run |-> first]

\* Lines 106-118 of reuse_instance: the answer and the new _first_run.
decide_reuse(step1, first, f_init_not_connected, no_parameters_in, cache) ==
    IF f_init_not_connected /\ no_parameters_in
    THEN [do_reuse |-> first, first_run |-> FALSE]
    ELSE [do_reuse |-> step1 /\ \A k \in DOMAIN cache :
                                   ~isinstance_ClosePort(cache[k]),
          first_run |-> first]

\* close_port_calls with a slot loop that starts at 1.
close_port_calls_from_1(port_name) ==
    IF ports[port_name].is_vector
    THEN [k \in 1..(ports[port_name].length - 1) |->
            Event("close_port", port_name, k)]
    ELSE << Event("close_port", port_name, NoSlot) >>

\* __close_outgoing_ports: the close_port calls, in order.
close_port_calls(port_name) ==
    IF ports[port_name].is_vector
    THEN [k \in 1..ports[port_name].length |->
            Event("close_port", port_name, k - 1)]
    ELSE << Event("close_port", port_name, NoSlot) >>

close_outgoing_ports_o_i_only == Flatten([i \in 1..Len(list_ports({"O_I"})) |-> close_port_calls(list_ports({"O_I"})[i])])

\* __close_outgoing_ports: its close_port calls, in order.
close_outgoing_ports ==
    LET sending == list_ports({o \in Operators : allows_sending(o)})
    IN  Flatten([i \in 1..Len(sending) |-> close_port_calls(sending[i])])

\* shutdown_and_deregister with the two calls swapped.
deregister_and_shutdown ==
    << Event("deregister", "", NoSlot), Event("shutdown", "", NoSlot) >>

\* The last calls of a reuse_instance call that answers false.
shutdown_and_deregister ==
    << Event("shutdown", "", NoSlot), Event("deregister", "", NoSlot) >>

\* __close_incoming_ports without the test of is_connected.
close_incoming_ports_unconnected_too == list_ports({o \in Operators : o # "F_INIT" /\ allows_receiving(o)})

\* __close_incoming_ports: the ports it drains, in order.
close_incoming_ports ==
    SelectSeq(list_ports({o \in Operators :
                            o # "F_INIT" /\ allows_receiving(o)}),
              LAMBDA p : ports[p].connected)

\* ------------------------------------------------------- reuse_instance
running == pc = "user" /\ results # <<>> /\ results[Len(results)]

no_input_connected ==
    /\ ~parameters_in
    /\ \A p \in PortNames :
          allows_receiving(ports[p].operator) => ~ports[p].connected

\* How often a pre-received message of this key went to the user in this
\* cycle; counting stops at two.
Handed(key) == IF key \in DOMAIN handed THEN handed[key] ELSE 0
Min2(n) == IF n > 2 THEN 2 ELSE n

without_all(cache, key) == <<>>

Without(cache, key) == [k \in DOMAIN cache \ {key} |-> cache[k]]

\* reuse_instance from its entry up to the first blocking receive of
\* __pre_receive_f_init: the muscle_parameters_in step and the reset of
\* the cache.  After shutdown the peers are gone, so a further call only
\* gets past its receives when no input is connected.
ReceiveParameters ==
    /\ pc = "user"
    /\ calls < MaxCalls
    /\ is_shut_down => no_input_connected
    /\ \E message \in (IF parameters_in THEN ParametersMessages
                       ELSE {default_message}) :
          LET r == receive_parameters(message, overlay)
          IN  /\ parameters_message' = message
              /\ overlay' = r.overlay
              /\ do_reuse' = r.answer
              /\ seen_close' = IF isinstance_ClosePort(message)
                               THEN seen_close
                                    \cup {<<"muscle_parameters_in", NoSlot>>}
                               ELSE seen_close
              /\ IF r.raises
                 THEN /\ pc' = "failed"
                      /\ error' = "protocol_error"
                      /\ UNCHANGED f_init_cache
                 ELSE /\ pc' = "pre_receive"
                      /\ error' = "none"
                      /\ f_init_cache' = <<>>
    /\ calls' = calls + 1
    /\ trace' = << Event("parameters", "muscle_parameters_in", NoSlot) >>
    /\ pre_received' = <<>>
    /\ cursor' = [NoCursor EXCEPT !.i = 1]
    /\ last' = NoLast
    /\ tried' = {}
    /\ handed' = <<>>
    /\ UNCHANGED <<network, manager, topology, sent, first_run,
                   apply_overlay, registered, is_shut_down, results>>

\* One pass of the pre_receive closure: a blocking receive, the cache entry,
\* and with apply_overlay the overlay, the compatibility check and the
\* stripping of the configuration.
PreReceive ==
    /\ pc = "pre_receive"
    /\ cursor.i <= Len(pre_receive_f_init)
    /\ \E msg \in PortMessages :
          LET key == pre_receive_f_init[cursor.i]
              address == pre_receive_address(key[2])
              applied == IF apply_overlay THEN apply_overlay_of(overlay, msg)
                         ELSE overlay
              compatible == apply_overlay =>
                                check_compatibility(applied, msg.configuration)
              stored == IF apply_overlay /\ compatible
                        THEN [msg EXCEPT !.configuration = NoneConfiguration]
                        ELSE msg
          IN  /\ trace' = Append(trace, Event("pre_receive", key[1], address))
              /\ pre_received' = Append(pre_received,
                                        [port_name |-> key[1], slot |-> key[2],
                                         message |-> msg])
              /\ seen_close' = IF isinstance_ClosePort(msg)
                               THEN seen_close \cup {<<key[1], address>>}
                               ELSE seen_close
              /\ f_init_cache' = (key :> stored) @@ f_init_cache
              /\ overlay' = applied
              /\ IF compatible
                 THEN /\ pc' = "pre_receive"
                      /\ UNCHANGED error
                 ELSE /\ pc' = "failed"
                      /\ error' = "parallel_universe"
    /\ cursor' = [cursor EXCEPT !.i = cursor.i + 1]
    /\ UNCHANGED <<network, manager, topology, sent, first_run,
                   apply_overlay, do_reuse, registered, is_shut_down, calls,
                   results, parameters_message, last, tried, handed>>

\* reuse_instance after the pre-receive: the answer, and for the answer
\* false the outgoing half of the close protocol, up to the first blocking
\* receive of the incoming half.
DecideReuse ==
    /\ pc = "pre_receive"
    /\ cursor.i > Len(pre_receive_f_init)
    /\ LET f_init == list_ports({"F_INIT"})
           f_init_not_connected ==
               \A i \in 1..Len(f_init) : ~ports[f_init[i]].connected
           d == decide_reuse(do_reuse, first_run, f_init_not_connected,
                             ~parameters_in, f_init_cache)
       IN  /\ do_reuse' = d.do_reuse
           /\ first_run' = d.first_run
           /\ IF d.do_reuse
              THEN /\ pc' = "user"
                   /\ results' = Append(results, TRUE)
                   /\ cursor' = NoCursor
                   /\ UNCHANGED trace
              ELSE /\ pc' = "close_incoming"
                   /\ trace' = trace \o close_outgoing_ports
                   /\ cursor' = [NoCursor EXCEPT !.i = 1, !.slot = 0]
                   /\ UNCHANGED results
    /\ UNCHANGED <<network, manager, topology, sent, overlay, f_init_cache,
                   apply_overlay, registered, is_shut_down, calls,
                   parameters_message, pre_received, seen_close, error, last,
                   tried, handed>>

\* One blocking receive of __drain_incoming_port (scalar port) or of
\* __drain_incoming_vector_port (vector port), with the loop test that
\* follows it.  A peer sends at most MaxDrain more messages before it
\* closes the port.
DrainIncoming ==
    /\ pc = "close_incoming"
    /\ cursor.i <= Len(close_incoming_ports)
    /\ LET port_name == close_incoming_ports[cursor.i]
           port == ports[port_name]
           slot == IF port.is_vector THEN cursor.slot ELSE NoSlot
           tests == ~port.is_vector \/ cursor.slot = 0
       IN  \E msg \in DrainMessages :
             /\ (tests /\ cursor.drained >= MaxDrain)
                    => isinstance_ClosePort(msg)
             /\ trace' = Append(trace, Event("drain", port_name, slot))
             /\ seen_close' = IF isinstance_ClosePort(msg)
                              THEN seen_close \cup {<<port_name, slot>>}
                              ELSE seen_close
             /\ LET head_closed == IF tests THEN isinstance_ClosePort(msg)
                                   ELSE cursor.head_closed
                    drained == IF tests /\ ~isinstance_ClosePort(msg)
                               THEN cursor.drained + 1 ELSE cursor.drained
                    pass_done == ~port.is_vector
                                   \/ cursor.slot + 1 >= port.length
                IN  cursor' =
                      IF ~pass_done
                      THEN [cursor EXCEPT !.slot = cursor.slot + 1,
                                          !.head_closed = head_closed,
                                          !.drained = drained]
                      ELSE IF head_closed
                      THEN [NoCursor EXCEPT !.i = cursor.i + 1, !.slot = 0]
                      ELSE [cursor EXCEPT !.slot = 0, !.head_closed = FALSE,
                                          !.drained = drained]
    /\ UNCHANGED <<network, manager, topology, sent, overlay, first_run,
                   f_init_cache, pc, apply_overlay, do_reuse, registered,
                   is_shut_down, calls, results, parameters_message,
                   pre_received, error, last, tried, handed>>

\* The end of a reuse_instance call that answers false: shutdown of the
\* communicator, _deregister, return.
Deregister ==
    /\ pc = "close_incoming"
    /\ cursor.i > Len(close_incoming_ports)
    /\ trace' = trace \o shutdown_and_deregister
    /\ is_shut_down' = TRUE
    /\ registered' = FALSE
    /\ results' = Append(results, do_reuse)
    /\ pc' = "user"
    /\ cursor' = NoCursor
    /\ UNCHANGED <<network, manager, topology, sent, overlay, first_run,
                   f_init_cache, apply_overlay, do_reuse, calls,
                   parameters_message, pre_received, seen_close, error, last,
                   tried, handed>>

\* ------------------------------------------------------ receive_message
Defaults ==
    {NoMessage, Message(1, NoSlot, Value(2), NoneConfiguration),
     Message(1, 2, Value(2), A1)}

port_exists(port_name) == port_name \in PortNames

SlotsOf(port_name) ==
    IF port_exists(port_name) /\ ports[port_name].is_vector
    THEN 0..(ports[port_name].length - 1) ELSE {NoSlot}

\* receive_message without the del of the cache entry.
receive_message_keeps_entry(port_name, slot, default, with_parameters, msg) ==
    LET key == <<port_name, slot>>
        none == [status |-> "ok", message |-> NoMessage,
                 cache |-> f_init_cache]
    IN  IF ~port_exists(port_name)
        THEN [none EXCEPT !.status = "no_such_port"]
        ELSE IF ports[port_name].operator = "F_INIT"
        THEN IF key \in DOMAIN f_init_cache
             THEN IF with_parameters
                       /\ f_init_cache[key].configuration = NoneConfiguration
                  THEN [none EXCEPT !.status = "parameters_applied"]
                  ELSE [none EXCEPT !.message = f_init_cache[key]]
             ELSE IF ports[port_name].connected
                  THEN [none EXCEPT !.status = "receive_twice"]
                  ELSE IF default # NoMessage
                       THEN [none EXCEPT !.message = default]
                       ELSE [none EXCEPT !.status = "not_connected"]
        ELSE IF msg = NoMessage
        THEN [none EXCEPT !.status = "not_connected"]
        ELSE IF with_parameters
        THEN [none EXCEPT !.message = msg]
        ELSE IF ~check_compatibility(overlay, msg.configuration)
        THEN [none EXCEPT !.status = "parallel_universe"]
        ELSE [none EXCEPT
                !.message = [msg EXCEPT !.configuration = NoneConfiguration]]

\* receive_message that raises for an applied configuration before the del.
receive_message_checks_before_del(port_name, slot, default, with_parameters, msg) == LET key == <<port_name, slot>> none == [status |-> "ok", message |-> NoMessage, cache |-> f_init_cache] IN  IF ~port_exists(port_name) THEN [none EXCEPT !.status = "no_such_port"] ELSE IF ports[port_name].operator = "F_INIT" THEN IF key \in DOMAIN f_init_cache THEN IF with_parameters /\ f_init_cache[key].configuration = NoneConfiguration THEN [status |-> "parameters_applied", message |-> NoMessage, cache |-> f_init_cache] ELSE [status |-> "ok", message |-> f_init_cache[key], cache |-> Without(f_init_cache, key)] ELSE IF ports[port_name].connected THEN [none EXCEPT !.status = "receive_twice"] ELSE IF default # NoMessage THEN [none EXCEPT !.message = default] ELSE [none EXCEPT !.status = "not_connected"] ELSE IF msg = NoMessage THEN [none EXCEPT !.status = "not_connected"] ELSE IF with_parameters THEN [none EXCEPT !.message = msg] ELSE IF ~check_compatibility(overlay, msg.configuration) THEN [none EXCEPT !.status = "parallel_universe"] ELSE [none EXCEPT !.message = [msg EXCEPT !.configuration = NoneConfiguration]]

\* __receive_message for a message msg that the communicator returns if
\* it is asked: the status (ok or the exception), the message returned,
\* and the cache afterwards.
receive_message(port_name, slot, default, with_parameters, msg) ==
    LET key == <<port_name, slot>>
        none == [status |-> "ok", message |-> NoMessage,
                 cache |-> f_init_cache]
    IN  IF ~port_exists(port_name)
        THEN [none EXCEPT !.status = "no_such_port"]
        ELSE IF ports[port_name].operator = "F_INIT"
        THEN IF key \in DOMAIN f_init_cache
             THEN IF with_parameters
                       /\ f_init_cache[key].configuration = NoneConfiguration
                  THEN [status |-> "parameters_applied", message |-> NoMessage,
                        cache |-> Without(f_init_cache, key)]
                  ELSE [status |-> "ok", message |-> f_init_cache[key],
                        cache |-> Without(f_init_cache, key)]
             ELSE IF ports[port_name].connected
                  THEN [none EXCEPT !.status = "receive_twice"]
                  ELSE IF default # NoMessage
                       THEN [none EXCEPT !.message = default]
                       ELSE [none EXCEPT !.status = "not_connected"]
        ELSE IF msg = NoMessage
        THEN [none EXCEPT !.status = "not_connected"]
        ELSE IF with_parameters
        THEN [none EXCEPT !.message = msg]
        ELSE IF ~check_compatibility(overlay, msg.configuration)
        THEN [none EXCEPT !.status = "parallel_universe"]
        ELSE [none EXCEPT
                !.message = [msg EXCEPT !.configuration = NoneConfiguration]]

\* receive_message_with_parameters passing with_parameters=False.
receive_message_with_parameters_false(port_name, slot, default, msg) == receive_message(port_name, slot, default, FALSE, msg)

\* receive_message_with_parameters: __receive_message with
\* with_parameters=True.
receive_message_with_parameters(port_name, slot, default, msg) ==
    receive_message(port_name, slot, default, TRUE, msg)

\* Communicator.receive_message(port_name, slot, default): the default on
\* a port that is not connected (NoMessage stands for its not-connected
\* error), else any message a peer can have sent.
communicator_receive(port_name, default) ==
    IF ~ports[port_name].connected THEN {default} ELSE PortMessages

\* A user call of receive_message or receive_message_with_parameters
\* inside the reuse loop.
ReceiveMessage ==
    /\ running
    /\ \E port_name \in {p \in PortNames : allows_receiving(ports[p].operator)}
                          \cup {"nope"},
          with_parameters \in BOOLEAN :
        \E slot \in SlotsOf(port_name),
           default \in (IF port_exists(port_name)
                           /\ ~ports[port_name].connected
                        THEN Defaults ELSE {NoMessage}) :
        \E msg \in (IF port_exists(port_name)
                       /\ ports[port_name].operator # "F_INIT"
                    THEN communicator_receive(port_name, default)
                    ELSE {NoMessage}) :
          LET r == IF with_parameters
                   THEN receive_message_with_parameters(port_name, slot,
                                                        default, msg)
                   ELSE receive_message(port_name, slot, default, FALSE, msg)
              key == <<port_name, slot>>
          IN  /\ f_init_cache' = r.cache
              /\ last' = [op |-> IF with_parameters
                                 THEN "receive_message_with_parameters"
                                 ELSE "receive_message",
                          port_name |-> port_name, slot |-> slot,
                          default |-> default, status |-> r.status,
                          message |-> r.message]
              /\ tried' = IF port_exists(port_name)
                               /\ ports[port_name].operator = "F_INIT"
                               /\ ports[port_name].connected
                          THEN tried \cup {key} ELSE tried
              /\ handed' = IF r.status = "ok" /\ key \in DOMAIN f_init_cache
                           THEN (key :> Min2(Handed(key) + 1)) @@ handed
                           ELSE handed
    /\ UNCHANGED <<network, manager, topology, sent, overlay, first_run, pc,
                   apply_overlay, do_reuse, cursor, registered, is_shut_down,
                   calls, results, trace, parameters_message, pre_received,
                   seen_close, error>>

\* ------------------------------------------------------- specification
Next ==
    \/ ReceiveParameters
    \/ PreReceive
    \/ DecideReuse
    \/ DrainIncoming
    \/ Deregister
    \/ ReceiveMessage

Spec == Init /\ [][Next]_vars

\* ------------------------------------------------------------- properties
\* reuse_instance has returned b and nothing was called since but user
\* receives.
returned(b) == pc = "user" /\ results # <<>> /\ results[Len(results)] = b

Count(event) == Cardinality({i \in DOMAIN trace : trace[i] = event})
Kinds(kinds) == {i \in DOMAIN trace : trace[i][1] \in kinds}

ConnectedIncoming ==
    {p \in PortNames : allows_receiving(ports[p].operator) /\ ports[p].connected}

\* C1: after reuse_instance has returned false, a ClosePort has been
\* received on every slot of every connected port with operator F_INIT, S
\* or B.
C1_ClosePortSeenOnEveryIncomingSlot ==
    returned(FALSE) =>
        \A p \in ConnectedIncoming : \A slot \in SlotsOf(p) :
            <<p, slot>> \in seen_close

\* C2: when reuse_instance returns false, exactly one close_port call was
\* made for a scalar sending port, exactly one for each slot 0..length-1
\* of a vector sending port, and none for any other port or slot.
C2_OneClosePortPerOutgoingSlot ==
    returned(FALSE) =>
        \A p \in PortNames :
            \A slot \in {NoSlot} \cup 0..(MaxLen + 1) :
                Count(Event("close_port", p, slot)) =
                    IF allows_sending(ports[p].operator) /\ slot \in SlotsOf(p)
                    THEN 1 ELSE 0

C2_Witness ==
    /\ returned(FALSE)
    /\ Count(Event("close_port", "out", MaxLen - 1)) = 1
    /\ Count(Event("close_port", "oi", NoSlot)) = 1

\* C3: with no F_INIT port connected and muscle_parameters_in not
\* connected, the results of the successive reuse_instance calls are true
\* for the first call and false for every later one.
C3_ReuseExactlyOnce ==
    (~parameters_in /\ \A p \in {"in", "in2"} : ~ports[p].connected) =>
        \A i \in 1..Len(results) : results[i] = (i = 1)

C3_Witness ==
    /\ ~parameters_in /\ \A p \in {"in", "in2"} : ~ports[p].connected
    /\ Len(results) >= 2

\* C4: with an F_INIT port or muscle_parameters_in connected,
\* reuse_instance returns false if a message pre-received in this call
\* has payload ClosePort, and else false iff ClosePort arrived on
\* muscle_parameters_in.
C4_AnswerFromCacheAndParameters ==
    (/\ pc = "user" /\ results # <<>>
     /\ parameters_in \/ \E p \in {"in", "in2"} : ports[p].connected) =>
        results[Len(results)] =
            IF \E i \in 1..Len(pre_received) :
                  pre_received[i].message.data = ClosePort
            THEN FALSE
            ELSE parameters_message.data # ClosePort

C4_Witness ==
    /\ returned(FALSE)
    /\ parameters_in /\ parameters_message.data # ClosePort
    /\ \E i \in 1..Len(pre_received) : pre_received[i].message.data = ClosePort
    /\ \E i \in 1..Len(pre_received) : pre_received[i].message.data # ClosePort

\* C5: a reuse_instance call that answers false runs the close protocol,
\* then deregisters, then returns: deregister_instance is its last call,
\* made once, after every close_port call and every draining receive.  A
\* call that answers true closes and drains nothing and leaves the
\* instance registered.
C5_CloseThenDeregisterThenReturn ==
    /\ \A i \in Kinds({"deregister"}) : i = Len(trace) /\ returned(FALSE)
    /\ returned(FALSE) =>
          /\ trace[Len(trace)] = Event("deregister", "", NoSlot)
          /\ ~registered
          /\ Cardinality(Kinds({"close_port"})) >= 1
          /\ \A p \in ConnectedIncoming :
                ports[p].operator # "F_INIT" =>
                    \E i \in Kinds({"drain"}) : trace[i][2] = p
    /\ returned(TRUE) =>
          /\ Kinds({"close_port", "drain", "shutdown", "deregister"}) = {}
          /\ registered

C5_Witness ==
    /\ returned(FALSE)
    /\ Cardinality(Kinds({"drain"})) >= 2
    /\ Len(results) >= 2

\* The pre-receive of the current call is complete and raised nothing.
pre_receive_done == pc \in {"user", "close_incoming"} /\ calls > 0

PreReceiveEvents == SelectSeq(trace, LAMBDA e : e[1] = "pre_receive")

ConnectedFInitKeys ==
    {<<p, slot>> : p \in {q \in ConnectedIncoming :
                            ports[q].operator = "F_INIT"},
                   slot \in {NoSlot} \cup 0..MaxLen}
    \cap {k \in PortNames \X ({NoSlot} \cup 0..MaxLen) : k[2] \in SlotsOf(k[1])}

\* C6: reuse_instance pre-receives exactly one message for every slot of
\* every connected F_INIT port and for nothing else, slot 0 of a vector
\* port first and then its slots 1..length-1 in order, and the receive for
\* the cache key (port_name, k) is addressed to slot k.
C6_PreReceiveAddressesEachSlot ==
    pre_receive_done =>
        /\ Len(PreReceiveEvents) = Len(pre_received)
        /\ {<<pre_received[i].port_name, pre_received[i].slot>> :
               i \in 1..Len(pre_received)} = ConnectedFInitKeys
        /\ Len(pre_received) = Cardinality(ConnectedFInitKeys)
        /\ \A i, j \in 1..Len(pre_received) :
              (i < j /\ pre_received[i].port_name = pre_received[j].port_name)
                  => pre_received[i].slot < pre_received[j].slot
        /\ \A i \in 1..Len(pre_received) :
              PreReceiveEvents[i] = Event("pre_receive",
                                          pre_received[i].port_name,
                                          pre_received[i].slot)

\* C7: in a cycle that reuse_instance(apply_overlay=True) lets start, the
\* overlays of all messages pre-received on F_INIT ports are equal: each
\* equals the overlay of the store.
C7_AllFInitOverlaysEqual ==
    (returned(TRUE) /\ apply_overlay) =>
        \A i \in 1..Len(pre_received) :
            pre_received[i].message.configuration = overlay

\* C8: in the muscle_parameters_in step of reuse_instance a ClosePort
\* payload makes the answer false and raises nothing; a payload that is
\* neither ClosePort nor a Configuration raises the protocol error and
\* leaves the overlay as it was; with the port not connected the default,
\* an empty Configuration, is used and the step answers true.
C8_ParametersStep ==
    [][calls' = calls + 1 =>
        LET m == parameters_message'
        IN  /\ m.data = ClosePort =>
                  pc' = "pre_receive" /\ ~do_reuse' /\ error' = "none"
            /\ m.data.kind \notin {"ClosePort", "Configuration"} =>
                  /\ pc' = "failed" /\ error' = "protocol_error"
                  /\ overlay' = overlay
            /\ ~parameters_in =>
                  /\ m.data = ConfigurationData(EmptyConfiguration)
                  /\ pc' = "pre_receive" /\ do_reuse' /\ error' = "none"]_vars

C8_Witness ==
    /\ pc = "failed" /\ error = "protocol_error"
    /\ overlay # EmptyConfiguration

\* C9: after a Configuration payload on muscle_parameters_in the overlay
\* has, for each key of the payload, the payload's value, for each key of
\* the attached configuration alone, the attached value, and no other
\* key; with an empty attached configuration it is the payload.
C9_OverlayIsPayloadOverAttached ==
    (/\ pc = "pre_receive" /\ cursor.i = 1 /\ parameters_in
     /\ parameters_message.data.kind = "Configuration") =>
        LET payload == parameters_message.data.val
            attached == parameters_message.configuration
        IN  /\ \A p \in payload : p \in overlay
            /\ \A p \in attached : p[1] \notin Keys(payload) => p \in overlay
            /\ Keys(overlay) = Keys(payload) \cup Keys(attached)
            /\ Cardinality(overlay) = Cardinality(Keys(overlay))
            /\ attached = EmptyConfiguration => overlay = payload

C9_Witness ==
    /\ pc = "pre_receive" /\ cursor.i = 1 /\ parameters_in
    /\ parameters_message.data = ConfigurationData(B2)
    /\ parameters_message.configuration = A1
    /\ overlay = {<<"a", 1>>, <<"b", 2>>}

\* The message pre-received for a key in the current call.
PreReceivedFor(key) ==
    LET i == CHOOSE i \in 1..Len(pre_received) :
                 <<pre_received[i].port_name, pre_received[i].slot>> = key
    IN  pre_received[i].message

SameContent(a, b) ==
    /\ a.timestamp = b.timestamp
    /\ a.next_timestamp = b.next_timestamp
    /\ a.data = b.data

\* A step that is a user receive on a (port, slot) pre-received in this
\* cycle.
ReceiveOnPreReceived ==
    /\ running /\ calls' = calls
    /\ last'.op \in {"receive_message", "receive_message_with_parameters"}
    /\ <<last'.port_name, last'.slot>> \in ConnectedFInitKeys

\* C10: in one reuse cycle the first receive_message or
\* receive_message_with_parameters on a pre-received (port, slot) returns
\* the cached message, every further one on it raises the receive-twice
\* error, and so the message is handed to the user at most once.
C10_FirstReceiveReturnsCached ==
    [][ReceiveOnPreReceived =>
        LET key == <<last'.port_name, last'.slot>>
        IN  /\ IF key \notin tried
               THEN /\ last'.status = "ok"
                    /\ SameContent(last'.message, PreReceivedFor(key))
               ELSE last'.status = "receive_twice"
            /\ key \in DOMAIN handed' => handed'[key] <= 1]_vars

\* C10 as amended: the first receive on a pre-received (port, slot)
\* returns the cached message unless it is a
\* receive_message_with_parameters after reuse_instance(apply_overlay=True),
\* which raises; every further receive on it raises the receive-twice
\* error; the message is handed to the user at most once.
C10_AtMostOnce ==
    [][ReceiveOnPreReceived =>
        LET key == <<last'.port_name, last'.slot>>
        IN  /\ IF key \in tried
               THEN last'.status = "receive_twice"
               ELSE IF last'.op = "receive_message_with_parameters"
                         /\ apply_overlay
               THEN last'.status = "parameters_applied"
               ELSE /\ last'.status = "ok"
                    /\ SameContent(last'.message, PreReceivedFor(key))
            /\ key \in DOMAIN handed' => handed'[key] <= 1]_vars

C10_Witness ==
    /\ running
    /\ last.status = "receive_twice"
    /\ <<last.port_name, last.slot>> \in DOMAIN handed
    /\ handed[<<last.port_name, last.slot>>] = 1

\* The last user receive was a receive_message on a declared port that is
\* not connected.
ReceivedOnUnconnected ==
    /\ last.op = "receive_message"
    /\ port_exists(last.port_name)
    /\ ~ports[last.port_name].connected

\* C11: receive_message on a declared port that is not connected returns
\* the caller's default exactly as passed, without an error, whenever a
\* default is given, whatever the port's operator, the configuration of
\* the default and the overlay; without a default it raises the
\* not-connected error.
C11_DefaultReturnedAsPassed ==
    ReceivedOnUnconnected =>
        IF last.default # NoMessage
        THEN last.status = "ok" /\ last.message = last.default
        ELSE last.status = "not_connected"

\* C12: every message receive_message returns from a connected port has
\* no configuration attached, on ports with operator F_INIT as on the
\* others, whatever apply_overlay the preceding reuse_instance was given.
C12_ReturnedWithoutConfiguration ==
    (/\ last.op = "receive_message"
     /\ last.status = "ok"
     /\ port_exists(last.port_name)
     /\ ports[last.port_name].connected)
        => last.message.configuration = NoneConfiguration

\* ---------------------------------------------------------------- sending
\* The messages the user passes to send_message: one without a
\* configuration and one that carries its own.
UserMessages ==
    {Message(1, NoSlot, Value(2), c) : c \in {NoneConfiguration, B2}}

\* Lines 248-250 of send_message: the message that goes to the
\* communicator.
attach_overlay(message, current_overlay) ==
    IF message.configuration = NoneConfiguration
    THEN [message EXCEPT !.configuration = current_overlay]
    ELSE message

\* The last call of Communicator.send_message and the caller's Message
\* object as send_message leaves it.
Sent(port_name, slot, message, caller) ==
    [port_name |-> port_name, slot |-> slot, message |-> message,
     caller |-> caller, resent |-> FALSE]

\* send_message that attaches the overlay before it checks the port.
send_message_unchecked(port_name, message, slot) ==
    [status |-> IF port_exists(port_name) THEN "ok" ELSE "no_such_port",
     sent |-> Sent(port_name, slot, attach_overlay(message, overlay),
                   message)]

\* send_message that attaches the overlay to every message.
send_message_overlay_always(port_name, message, slot) ==
    IF ~port_exists(port_name)
    THEN [status |-> "no_such_port", sent |-> sent]
    ELSE [status |-> "ok",
          sent |-> Sent(port_name, slot,
                        [message EXCEPT !.configuration = overlay], message)]

\* send_message that sets the configuration on the caller's object.
send_message_in_place(port_name, message, slot) == IF ~port_exists(port_name) THEN [status |-> "no_such_port", sent |-> sent] ELSE [status |-> "ok", sent |-> Sent(port_name, slot, attach_overlay(message, overlay), attach_overlay(message, overlay))]

\* send_message: the status (ok or the ValueError of __check_port) and the
\* call of Communicator.send_message it ends in.  Python attaches the
\* overlay object itself; no code path changes a Configuration that is
\* the overlay in place (__receive_parameters and __apply_overlay install
\* another object), so the attached value is the overlay as it is now.
\* The configuration is set on a copy (line 249), so the caller's object
\* stays as it was passed.
send_message(port_name, message, slot) ==
    IF ~port_exists(port_name)
    THEN [status |-> "no_such_port", sent |-> sent]
    ELSE [status |-> "ok",
          sent |-> Sent(port_name, slot, attach_overlay(message, overlay),
                        message)]

\* A user call of send_message inside the reuse loop, with a new Message
\* or with the object of the send before; sent.resent says that the object
\* was sent before, when the communicator got it with another overlay.
SendMessage ==
    /\ running
    /\ \E port_name \in {p \in PortNames : allows_sending(ports[p].operator)}
                          \cup {"nope"},
          message \in UserMessages \cup {sent.caller} :
        \E slot \in SlotsOf(port_name) :
          LET r == send_message(port_name, message, slot)
              again == sent # NoSent /\ message = sent.caller
          IN  /\ message # NoMessage
              /\ sent' = IF r.status = "ok"
                         THEN [r.sent EXCEPT
                                 !.resent =
                                     /\ again
                                     /\ sent.message.configuration # overlay]
                         ELSE r.sent
              /\ last' = [op |-> "send_message", port_name |-> port_name,
                          slot |-> slot, default |-> NoMessage,
                          status |-> r.status, message |-> message]
    /\ UNCHANGED <<network, manager, topology, overlay, first_run,
                   f_init_cache, pc, apply_overlay, do_reuse, cursor,
                   registered, is_shut_down, calls, results, trace,
                   parameters_message, pre_received, seen_close, error,
                   tried, handed>>

\* An instance that also sends: of the wirings of Init those whose
\* receiving ports are scalar, one port with operator F_INIT connected.
InitSend ==
    /\ Init
    /\ ports["in"].connected /\ ~ports["in"].is_vector
    /\ ~ports["in2"].connected /\ ~ports["s"].is_vector

NextSend ==
    \/ ReceiveParameters
    \/ PreReceive
    \/ DecideReuse
    \/ DrainIncoming
    \/ Deregister
    \/ ReceiveMessage
    \/ SendMessage

SpecSend == InitSend /\ [][NextSend]_vars

\* C13: send_message and receive_message on a port the instance does not
\* declare fail with the ValueError of __check_port before anything else:
\* no message is handed to the communicator, and the f_init cache and the
\* overlay stay as they were.
C13_MissingPortFailsFirst ==
    [][(last'.op # "none" /\ ~port_exists(last'.port_name)) =>
        /\ last'.status = "no_such_port"
        /\ sent' = sent
        /\ f_init_cache' = f_init_cache
        /\ overlay' = overlay]_vars

C13_Witness ==
    /\ last.op = "send_message"
    /\ last.status = "no_such_port"
    /\ sent # NoSent
    /\ DOMAIN f_init_cache # {}

\* C14: send_message hands a message passed without a configuration to
\* the communicator with the overlay of the moment of the send attached,
\* and a message passed with a configuration unchanged; a later change of
\* the overlay does not change the message sent.
C14_OverlayAttachedAtSend ==
    [][/\ (last'.op = "send_message" /\ last'.status = "ok") =>
            /\ sent'.port_name = last'.port_name
            /\ sent'.slot = last'.slot
            /\ sent'.message =
                 IF last'.message.configuration = NoneConfiguration
                 THEN [last'.message EXCEPT !.configuration = overlay]
                 ELSE last'.message
       /\ overlay' # overlay => sent' = sent]_vars

C14_Witness ==
    /\ running
    /\ sent # NoSent
    /\ sent.message.configuration = EmptyConfiguration
    /\ overlay # EmptyConfiguration

ConnectedNonFInit ==
    {p \in ConnectedIncoming : ports[p].operator # "F_INIT"}

\* C15: inside the reuse loop, receive_message on a connected port with
\* operator S or B raises the parallel-universe error when the overlay
\* attached to the message differs from the current overlay and returns
\* the message when they are equal; receive_message_with_parameters on it
\* makes no check and returns the message with its configuration.
C15_ParallelUniverseCheck ==
    running =>
        \A p \in ConnectedNonFInit : \A slot \in SlotsOf(p) :
            \A msg \in communicator_receive(p, NoMessage) :
                LET plain == receive_message(p, slot, NoMessage, FALSE, msg)
                    with == receive_message(p, slot, NoMessage, TRUE, msg)
                IN  /\ plain.status =
                         IF msg.configuration = overlay
                         THEN "ok" ELSE "parallel_universe"
                    /\ plain.status = "ok" => SameContent(plain.message, msg)
                    /\ with.status = "ok" /\ with.message = msg

C15_Witness ==
    /\ running
    /\ last.op = "receive_message"
    /\ last.port_name \in ConnectedNonFInit
    /\ last.status = "parallel_universe"
    /\ overlay = A1

\* ------------------------------------------------- a network of instances
\* The duplication mapper test: the sender dm with two O_F ports, the
\* receivers first and second with the F_INIT port in, each instance a
\* thread of its own that runs its reuse loop.  No muscle_parameters_in
\* is connected and all ports are scalar.
Instances == {"dm", "first", "second"}

Conduits ==
    {[sender |-> <<"dm", "out1">>, receiver |-> <<"first", "in">>],
     [sender |-> <<"dm", "out2">>, receiver |-> <<"second", "in">>]}

\* The cyclic coupling of a macro model and a micro model.
CycleInstances == {"macro", "micro"}

CycleConduits ==
    {[sender |-> <<"macro", "out">>, receiver |-> <<"micro", "in">>],
     [sender |-> <<"micro", "out">>, receiver |-> <<"macro", "in">>]}

\* Communicator.list_ports().get(operator, []) of an instance.
InstancePorts(x, operator) ==
    CASE x = "dm" ->
            (IF operator = "O_F" THEN <<"out1", "out2">> ELSE <<>>)
      [] x = "macro" ->
            (CASE operator = "O_I" -> <<"out">>
               [] operator = "S" -> <<"in">>
               [] OTHER -> <<>>)
      [] x = "micro" ->
            (CASE operator = "F_INIT" -> <<"in">>
               [] operator = "O_F" -> <<"out">>
               [] OTHER -> <<>>)
      [] OTHER -> (IF operator = "F_INIT" THEN <<"in">> ELSE <<>>)

\* The operator of a declared port of an instance.
operator_of(x, port_name) ==
    CHOOSE operator \in Operators :
        \E i \in 1..Len(InstancePorts(x, operator)) :
            InstancePorts(x, operator)[i] = port_name

is_connected(x, port_name) ==
    \E c \in Conduits \cup CycleConduits :
        <<x, port_name>> \in {c.sender, c.receiver}

\* The endpoint a sending port delivers to.
Receiver(x, port_name) ==
    (CHOOSE c \in Conduits \cup CycleConduits :
         c.sender = <<x, port_name>>).receiver

ReceiverReferences == {c.receiver : c \in Conduits}

\* deposit that puts the message in front of the queue.
deposit_in_front(outbox, message) == <<message>> \o outbox

\* Outbox: a FIFO queue for one receiver.
deposit(outbox, message) == Append(outbox, message)
retrieve(outbox) == [message |-> Head(outbox), outbox |-> Tail(outbox)]

\* The payload 'testing'.
Testing == [kind |-> "Value", val |-> {<<"testing", 0>>}]

\* The two programs of the test.
Programs(x) == IF x = "dm" THEN "duplication_mapper" ELSE "receiver"

\* The same loops with other data: a sender that sends the values
\* 1..MaxSend on every O_F port in one loop body, and a receiver that
\* takes what it gets.
BurstPrograms(x) == IF x = "dm" THEN "burst" ELSE "collector"

\* A ComputeElement after __init__, and its program before the loop.
Element(program) ==
    [program |-> program, pc |-> "reuse", overlay |-> EmptyConfiguration,
     first_run |-> TRUE, do_reuse |-> FALSE, f_init_cache |-> <<>>,
     todo |-> <<>>, results |-> <<>>, received |-> <<>>, bodies |-> 0,
     registered |-> TRUE, is_shut_down |-> FALSE, drain |-> <<>>,
     iterations |-> 0]

Send(port_name, data) ==
    [op |-> "send_message", port_name |-> port_name, data |-> data]
Receive(port_name, data) ==
    [op |-> "receive_message", port_name |-> port_name, data |-> data]

\* The calls of one pass of the loop body: send_message on every O_F port
\* for a sender, receive_message('in') for a receiver, with the data sent
\* or asserted (none for the collector); for the macro model its
\* iterations of a send on out and a receive on in, for the micro model a
\* receive on in and a send on out.
Body(x, program) ==
    LET out_ports == InstancePorts(x, "O_F")
        round(data) == [i \in 1..Len(out_ports) |->
                          Send(out_ports[i], data)]
    IN  CASE program = "duplication_mapper" -> round(Testing)
          [] program = "burst" ->
                Flatten([k \in 1..MaxSend |-> round(Value(k))])
          [] program = "receiver" -> << Receive("in", Testing) >>
          [] program = "macro" ->
                Flatten([k \in 1..elements[x].iterations |->
                           << Send("out", Value(k)),
                              Receive("in", NoMessage.data) >>])
          [] program = "micro" ->
                << Receive("in", NoMessage.data), Send("out", Testing) >>
          [] OTHER -> << Receive("in", NoMessage.data) >>

\* The connected F_INIT ports __pre_receive_f_init receives on, in order.
pre_receive_ports(x) ==
    SelectSeq(InstancePorts(x, "F_INIT"), LAMBDA p : is_connected(x, p))

\* close_ports_of that closes the first sending port only.
close_ports_of_first_only(x) ==
    [i \in 1..(IF Len(InstancePorts(x, "O_F")) = 0 THEN 0 ELSE 1) |->
        InstancePorts(x, "O_F")[i]]

\* __close_outgoing_ports that closes nothing.
close_ports_of_none(x) == <<>>

\* The ports __close_outgoing_ports closes, in order.
close_ports_of(x) ==
    InstancePorts(x, "O_I") \o InstancePorts(x, "O_F")

\* The ports __close_incoming_ports drains, in order.
drain_ports_of(x) ==
    SelectSeq(InstancePorts(x, "S") \o InstancePorts(x, "B"),
              LAMBDA p : is_connected(x, p))

Put(x, e) == elements' = [elements EXCEPT ![x] = e]

\* reuse_instance of instance x up to the first blocking receive: the
\* parameters step on the unconnected muscle_parameters_in and the reset
\* of the cache.
NetReceiveParameters(x) ==
    LET e == elements[x]
        r == receive_parameters(default_message, e.overlay)
    IN  /\ e.pc = "reuse"
        /\ Put(x, [e EXCEPT !.overlay = r.overlay, !.do_reuse = r.answer,
                            !.f_init_cache = <<>>, !.pc = "pre_receive",
                            !.todo = pre_receive_ports(x)])
        /\ UNCHANGED <<outboxes, deposited, retrieved>>
        /\ UNCHANGED <<instance, manager>>

\* One pass of the pre_receive closure of x: the blocking receive returns
\* once the outbox for the port holds a message.
NetPreReceive(x) ==
    LET e == elements[x] IN
    /\ e.pc = "pre_receive"
    /\ e.todo # <<>>
    /\ LET reference == <<x, Head(e.todo)>>
       IN  /\ outboxes[reference] # <<>>
           /\ LET r == retrieve(outboxes[reference])
                  applied == apply_overlay_of(e.overlay, r.message)
                  compatible ==
                      check_compatibility(applied, r.message.configuration)
              IN  /\ outboxes' = [outboxes EXCEPT ![reference] = r.outbox]
                  /\ retrieved' = [retrieved EXCEPT
                                     ![reference] = Append(@, r.message)]
                  /\ Put(x, [e EXCEPT
                        !.overlay = applied,
                        !.f_init_cache =
                            (<<Head(e.todo), NoSlot>> :>
                                IF compatible
                                THEN [r.message EXCEPT
                                        !.configuration = NoneConfiguration]
                                ELSE r.message) @@ e.f_init_cache,
                        !.todo = Tail(e.todo),
                        !.pc = IF compatible THEN "pre_receive"
                               ELSE "failed"])
    /\ UNCHANGED deposited
    /\ UNCHANGED <<instance, manager>>

\* reuse_instance of x after the pre-receive: the answer; true enters the
\* loop body, false starts the close protocol.
NetDecideReuse(x) ==
    LET e == elements[x]
        f_init == InstancePorts(x, "F_INIT")
        f_init_not_connected ==
            \A i \in 1..Len(f_init) : ~is_connected(x, f_init[i])
        d == decide_reuse(e.do_reuse, e.first_run, f_init_not_connected,
                          TRUE, e.f_init_cache)
    IN  /\ e.pc = "pre_receive"
        /\ e.todo = <<>>
        /\ Put(x, IF d.do_reuse
                  THEN [e EXCEPT !.do_reuse = TRUE,
                                 !.first_run = d.first_run,
                                 !.results = Append(@, TRUE),
                                 !.bodies = @ + 1,
                                 !.todo = Body(x, e.program),
                                 !.pc = IF Body(x, e.program) = <<>>
                                        THEN "reuse" ELSE "body"]
                  ELSE [e EXCEPT !.do_reuse = FALSE,
                                 !.first_run = d.first_run,
                                 !.todo = close_ports_of(x),
                                 !.drain = drain_ports_of(x),
                                 !.pc = "close_outgoing"])
        /\ UNCHANGED <<outboxes, deposited, retrieved>>
        /\ UNCHANGED <<instance, manager>>

\* The next send_message of the loop body of a sender; after the last one
\* the loop calls reuse_instance again.
NetSendMessage(x) ==
    LET e == elements[x] IN
    /\ e.pc = "body"
    /\ Head(e.todo).op = "send_message"
    /\ LET call == Head(e.todo)
           message == attach_overlay(
                          Message(0, NoSlot, call.data, NoneConfiguration),
                          e.overlay)
           reference == Receiver(x, call.port_name)
       IN  /\ outboxes' = [outboxes EXCEPT ![reference] = deposit(@, message)]
           /\ deposited' = [deposited EXCEPT ![reference] = Append(@, message)]
           /\ Put(x, [e EXCEPT !.todo = Tail(e.todo),
                               !.pc = IF Tail(e.todo) = <<>> THEN "reuse"
                                      ELSE "body"])
    /\ UNCHANGED retrieved
    /\ UNCHANGED <<instance, manager>>

\* receive_message('in') of the loop body of a receiver, which takes the
\* message from the cache, and the assert on its data.
NetReceiveMessage(x) ==
    LET e == elements[x] IN
    /\ e.pc = "body"
    /\ Head(e.todo).op = "receive_message"
    /\ operator_of(x, Head(e.todo).port_name) = "F_INIT"
    /\ LET call == Head(e.todo)
           key == <<call.port_name, NoSlot>>
       IN  Put(x, IF key \in DOMAIN e.f_init_cache
                     /\ (e.program = "receiver" =>
                            e.f_init_cache[key].data = call.data)
                  THEN [e EXCEPT
                          !.f_init_cache = Without(e.f_init_cache, key),
                          !.received = Append(@, e.f_init_cache[key]),
                          !.todo = Tail(e.todo),
                          !.pc = IF Tail(e.todo) = <<>> THEN "reuse"
                                 ELSE "body"]
                  ELSE [e EXCEPT
                          !.f_init_cache = Without(e.f_init_cache, key),
                          !.pc = "failed"])
    /\ UNCHANGED <<outboxes, deposited, retrieved>>
    /\ UNCHANGED <<instance, manager>>

\* One close_port call of __close_outgoing_ports of x.
NetClosePort(x) ==
    LET e == elements[x] IN
    /\ e.pc = "close_outgoing"
    /\ e.todo # <<>>
    /\ LET message == Message(0, NoSlot, ClosePort, EmptyConfiguration)
           reference == Receiver(x, Head(e.todo))
       IN  /\ outboxes' = [outboxes EXCEPT ![reference] = deposit(@, message)]
           /\ deposited' = [deposited EXCEPT ![reference] = Append(@, message)]
           /\ Put(x, [e EXCEPT !.todo = Tail(e.todo)])
    /\ UNCHANGED retrieved
    /\ UNCHANGED <<instance, manager>>

\* The end of a reuse_instance call of x that answers false:
\* __close_incoming_ports, which passes over the F_INIT ports, then the
\* shutdown of the communicator, _deregister and the return.
NetDeregister(x) ==
    LET e == elements[x] IN
    /\ e.pc = "close_outgoing"
    /\ e.todo = <<>>
    /\ e.drain = <<>>
    /\ Put(x, [e EXCEPT !.is_shut_down = TRUE, !.registered = FALSE,
                        !.results = Append(@, FALSE), !.pc = "done"])
    /\ UNCHANGED <<outboxes, deposited, retrieved>>
    /\ UNCHANGED <<instance, manager>>

\* The state in which the three instances have been constructed.
InitNetwork ==
    /\ NoInstance
    /\ NoManager
    /\ elements = [x \in Instances |-> Element(Programs(x))]
    /\ outboxes = [r \in ReceiverReferences |-> <<>>]
    /\ deposited = [r \in ReceiverReferences |-> <<>>]
    /\ retrieved = [r \in ReceiverReferences |-> <<>>]

NextNetwork ==
    \/ \E x \in Instances : NetReceiveParameters(x)
    \/ \E x \in Instances : NetPreReceive(x)
    \/ \E x \in Instances : NetDecideReuse(x)
    \/ \E x \in Instances : NetSendMessage(x)
    \/ \E x \in Instances : NetReceiveMessage(x)
    \/ \E x \in Instances : NetClosePort(x)
    \/ \E x \in Instances : NetDeregister(x)

\* A step of the thread of instance x.
Thread(x) ==
    \/ NetReceiveParameters(x)
    \/ NetPreReceive(x)
    \/ NetDecideReuse(x)
    \/ NetSendMessage(x)
    \/ NetReceiveMessage(x)
    \/ NetClosePort(x)
    \/ NetDeregister(x)

\* Every instance is a thread of its own that runs whenever it can.
SpecNetwork ==
    /\ InitNetwork
    /\ [][NextNetwork]_vars
    /\ \A x \in Instances : WF_vars(Thread(x))

\* The burst sender and the collectors on the same wiring.
InitBurst ==
    /\ NoInstance
    /\ NoManager
    /\ elements = [x \in Instances |-> Element(BurstPrograms(x))]
    /\ outboxes = [r \in ReceiverReferences |-> <<>>]
    /\ deposited = [r \in ReceiverReferences |-> <<>>]
    /\ retrieved = [r \in ReceiverReferences |-> <<>>]

SpecBurst == InitBurst /\ [][NextNetwork]_vars

\* C16 (safety): in the duplication mapper scenario no instance fails,
\* reuse_instance of each instance answers true once and then false, a
\* receiver gets one message, with data 'testing', and the loop body of
\* dm runs once; an instance that is done is deregistered.
DuplicationMapperRunsOnce ==
    \A x \in Instances :
        LET e == elements[x] IN
        /\ e.pc # "failed"
        /\ e.results \in {<<>>, <<TRUE>>, <<TRUE, FALSE>>}
        /\ e.bodies = (IF e.results = <<>> THEN 0 ELSE 1)
        /\ \A i \in DOMAIN e.received : e.received[i].data = Testing
        /\ Len(e.received) <= 1
        /\ (e.program = "receiver" /\ e.results = <<TRUE, FALSE>>) =>
              Len(e.received) = 1
        /\ e.pc = "done" => e.results = <<TRUE, FALSE>> /\ ~e.registered

AllDeregistered ==
    \A x \in Instances : elements[x].pc = "done" /\ ~elements[x].registered

\* C16: every run of the duplication mapper scenario ends with the three
\* instances deregistered; on the way reuse_instance of each receiver
\* answers true once and false the next time, its receive_message('in')
\* returns one message, with data 'testing', and the body of dm's loop
\* runs once.
C16_DuplicationMapperTerminates ==
    []DuplicationMapperRunsOnce /\ <>[]AllDeregistered

C16_Witness ==
    /\ AllDeregistered
    /\ \A x \in {"first", "second"} :
          /\ elements[x].results = <<TRUE, FALSE>>
          /\ Len(elements[x].received) = 1
          /\ elements[x].received[1].data = Testing
    /\ elements["dm"].bodies = 1

\* C17: for every sender and receiving port the receiver obtains the
\* messages in the order the sender issued them, the ClosePort that ends
\* them included: what was deposited for a receiver is what it has
\* retrieved followed by what still waits in its outbox, a ClosePort is
\* the last message deposited, and receive_message hands the data
\* messages to the user in that order.
C17_FifoPerReceiver ==
    \A r \in ReceiverReferences :
        /\ deposited[r] = retrieved[r] \o outboxes[r]
        /\ \A i \in DOMAIN deposited[r] :
              isinstance_ClosePort(deposited[r][i]) => i = Len(deposited[r])
        /\ \A i \in DOMAIN elements[r[1]].received :
              /\ i <= Len(retrieved[r])
              /\ SameContent(elements[r[1]].received[i], retrieved[r][i])

C17_Witness ==
    LET r == <<"first", "in">>
    IN  /\ Len(elements["first"].received) = MaxSend
        /\ Len(retrieved[r]) = MaxSend + 1
        /\ isinstance_ClosePort(retrieved[r][MaxSend + 1])
        /\ Len(outboxes[<<"second", "in">>]) = MaxSend + 1

\* ------------------------------------------------------------ the manager
\* The manager with one of the two models of the servicer tests: a
\* scalar macro with micro[MaxMult][MicroWidth], or a scalar macro,
\* meso[MaxMult] and micro[MaxMult][MicroWidth].
MicroWidth == 2

Models == {"macro_micro", "macro_meso_micro"}

Kernels ==
    IF model = "macro_micro" THEN {"macro", "micro"}
    ELSE {"macro", "meso", "micro"}

\* The multiplicity of a compute element, from the topology store.
Multiplicity(kernel) ==
    CASE kernel = "macro" -> <<>>
      [] kernel = "meso" -> <<MaxMult>>
      [] OTHER -> <<MaxMult, MicroWidth>>

\* The conduits of the model, in the order of the model description.
TopologyConduits ==
    IF model = "macro_micro"
    THEN << [sender |-> <<"macro", "out">>, receiver |-> <<"micro", "in">>],
            [sender |-> <<"micro", "out">>, receiver |-> <<"macro", "in">>] >>
    ELSE << [sender |-> <<"macro", "out">>, receiver |-> <<"meso", "in">>],
            [sender |-> <<"meso", "out">>, receiver |-> <<"micro", "in">>],
            [sender |-> <<"micro", "out">>, receiver |-> <<"meso", "in">>],
            [sender |-> <<"meso", "out">>, receiver |-> <<"macro", "in">>] >>

\* An instance name such as micro[1][0]: the kernel and the index.
Reference(kernel, index) == [kernel |-> kernel, index |-> index]

\* All indices of a multiplicity: one component 0..n-1 per dimension.
Indices(dimensions) ==
    {index \in [1..Len(dimensions) -> 0..(MaxMult + MicroWidth)] :
        \A j \in 1..Len(dimensions) : index[j] < dimensions[j]}

InstancesOf(kernel) ==
    {Reference(kernel, index) : index \in Indices(Multiplicity(kernel))}

\* The compute elements of the model, in the order of the model description.
compute_elements ==
    IF model = "macro_micro" THEN <<"macro", "micro">>
    ELSE <<"macro", "meso", "micro">>

\* The indices of a multiplicity in the order they are generated: the last
\* dimension runs fastest, every dimension from 0.
RECURSIVE generate_indices(_)
generate_indices(multiplicity) ==
    IF multiplicity = <<>> THEN << <<>> >>
    ELSE LET rest == generate_indices(Tail(multiplicity))
         IN  [k \in 1..(Head(multiplicity) * Len(rest)) |->
                <<(k - 1) \div Len(rest)>> \o rest[((k - 1) % Len(rest)) + 1]]

\* The names of one compute element: the bare name without multiplicity,
\* else the name followed by each index.
elements_of_from_one(kernel) == IF Len(Multiplicity(kernel)) = 0 THEN <<Reference(kernel, <<>>)>> ELSE LET indices == generate_indices(Multiplicity(kernel)) IN [k \in 1..Len(indices) |-> Reference(kernel, [j \in 1..Len(indices[k]) |-> indices[k][j] + 1])]

elements_of(kernel) ==
    IF Len(Multiplicity(kernel)) = 0 THEN <<Reference(kernel, <<>>)>>
    ELSE LET indices == generate_indices(Multiplicity(kernel))
         IN  [k \in 1..Len(indices) |-> Reference(kernel, indices[k])]

RECURSIVE elements_from(_)
elements_from(kernels) ==
    IF kernels = <<>> THEN <<>>
    ELSE elements_of(Head(kernels)) \o elements_from(Tail(kernels))

\* The list of expected instances the registry is constructed with.
elements_for_model == elements_from(compute_elements)

\* The instances the registry expects.
expected_elements ==
    {elements_for_model[k] : k \in DOMAIN elements_for_model}

\* The instances the topology declares.
DeclaredInstances == UNION {InstancesOf(kernel) : kernel \in Kernels}

\* A name no compute element of the model has.
Undeclared == Reference("does_not_exist", <<>>)

IsPrefix(a, b) ==
    Len(a) <= Len(b) /\ \A j \in 1..Len(a) : a[j] = b[j]

\* The kernels a kernel shares a conduit with.
PeerKernels(kernel) ==
    {TopologyConduits[i].receiver[1] :
        i \in {j \in DOMAIN TopologyConduits :
                 TopologyConduits[j].sender[1] = kernel}}
    \cup {TopologyConduits[i].sender[1] :
        i \in {j \in DOMAIN TopologyConduits :
                 TopologyConduits[j].receiver[1] = kernel}}

\* The concrete peer instances of an instance: those of a peer kernel
\* whose index extends its index or is a prefix of it.
PeerInstances(name) ==
    {peer \in UNION {InstancesOf(k) : k \in PeerKernels(name.kernel)} :
        IsPrefix(peer.index, name.index) \/ IsPrefix(name.index, peer.index)}

\* Where an instance listens and which ports it declares.
Location(scheme, name) == [scheme |-> scheme, name |-> name]
DeclaredPorts == << [name |-> "in", operator |-> "F_INIT"],
                    [name |-> "out", operator |-> "O_F"] >>

\* The registration requests: every instance from its own location, and
\* a second process that claims the name macro from another location.
RegistrationRequests ==
    {[name |-> name, locations |-> << Location("direct", name) >>,
      ports |-> DeclaredPorts] : name \in DeclaredInstances \cup {Undeclared}}
    \cup {[name |-> Reference("macro", <<>>),
           locations |-> << Location("tcp", Reference("macro", <<>>)) >>,
           ports |-> << [name |-> "test_in", operator |-> "F_INIT"] >>]}

Answer(request, name, arguments, status) ==
    [NoResponse EXCEPT !.request = request, !.name = name,
                       !.arguments = arguments, !.status = status]

\* register_instance that answers ERROR for a registered name and
\* replaces the entry all the same.
register_instance_overwrites(request) ==
    LET entry == [locations |-> request.locations, ports |-> request.ports]
        stored == [n \in DOMAIN registry \cup {request.name} |->
                     IF n = request.name THEN entry ELSE registry[n]]
    IN  IF request.name \in DOMAIN registry
        THEN [registry |-> stored,
              response |-> [Answer("register_instance", request.name,
                                   request, "ERROR")
                              EXCEPT !.error_message =
                                  [text |-> "already registered",
                                   name |-> request.name]]]
        ELSE [registry |-> stored,
              response |-> Answer("register_instance", request.name,
                                  request, "SUCCESS")]

\* register_instance: the registry afterwards and the answer.
register_instance(request) ==
    LET entry == [locations |-> request.locations, ports |-> request.ports]
    IN  IF request.name \in DOMAIN registry
        THEN [registry |-> registry,
              response |-> [Answer("register_instance", request.name,
                                   request, "ERROR")
                              EXCEPT !.error_message =
                                  [text |-> "already registered",
                                   name |-> request.name]]]
        ELSE [registry |-> (request.name :> entry) @@ registry,
              response |-> Answer("register_instance", request.name,
                                  request, "SUCCESS")]

\* peers_of that returns all conduits of the model.
peers_of_all_conduits(name) ==
    [Answer("request_peers", name, <<>>, "SUCCESS") EXCEPT
        !.conduits = TopologyConduits,
        !.peer_dimensions =
            {[peer_name |-> k, dimensions |-> Multiplicity(k)] :
                k \in PeerKernels(name.kernel)},
        !.peer_locations =
            {[instance_name |-> peer, locations |-> registry[peer].locations] :
                peer \in PeerInstances(name)}]

\* peers_of that gives every peer the location of the requester's name.
peers_of_own_location(name) ==
    [Answer("request_peers", name, <<>>, "SUCCESS") EXCEPT
        !.conduits =
            SelectSeq(TopologyConduits,
                      LAMBDA c : name.kernel \in {c.sender[1], c.receiver[1]}),
        !.peer_dimensions =
            {[peer_name |-> k, dimensions |-> Multiplicity(k)] :
                k \in PeerKernels(name.kernel)},
        !.peer_locations =
            {[instance_name |-> peer, locations |-> << Location("direct", name) >>] :
                peer \in PeerInstances(name)}]

\* The answer of request_peers with every peer registered.
peers_of(name) ==
    [Answer("request_peers", name, <<>>, "SUCCESS") EXCEPT
        !.conduits =
            SelectSeq(TopologyConduits,
                      LAMBDA c : name.kernel \in {c.sender[1], c.receiver[1]}),
        !.peer_dimensions =
            {[peer_name |-> k, dimensions |-> Multiplicity(k)] :
                k \in PeerKernels(name.kernel)},
        !.peer_locations =
            {[instance_name |-> peer, locations |-> registry[peer].locations] :
                peer \in PeerInstances(name)}]

unknown_instance(name) ==
    [Answer("request_peers", name, <<>>, "ERROR") EXCEPT
        !.error_message = [text |-> "unknown instance", name |-> name]]

\* request_peers that answers SUCCESS as soon as one peer is registered.
request_peers_one_peer(name) ==
    IF name.kernel \notin Kernels
    THEN unknown_instance(name)
    ELSE IF \A peer \in PeerInstances(name) : peer \notin DOMAIN registry
    THEN Answer("request_peers", name, <<>>, "PENDING")
    ELSE [Answer("request_peers", name, <<>>, "SUCCESS") EXCEPT
            !.peer_locations =
                {[instance_name |-> peer,
                  locations |-> registry[peer].locations] :
                    peer \in PeerInstances(name) \cap DOMAIN registry}]

\* request_peers that treats an undeclared name as one without peers yet.
request_peers_unknown_pending(name) ==
    IF name.kernel \notin Kernels
    THEN Answer("request_peers", name, <<>>, "PENDING")
    ELSE IF \E peer \in PeerInstances(name) : peer \notin DOMAIN registry
    THEN Answer("request_peers", name, <<>>, "PENDING")
    ELSE peers_of(name)

\* request_peers: the answer.
request_peers(name) ==
    IF name.kernel \notin Kernels
    THEN unknown_instance(name)
    ELSE IF \E peer \in PeerInstances(name) : peer \notin DOMAIN registry
    THEN Answer("request_peers", name, <<>>, "PENDING")
    ELSE peers_of(name)

\* deregister_instance: the registry afterwards.
deregister_instance(name) ==
    [n \in DOMAIN registry \ {name} |-> registry[n]]

RegisterInstance ==
    /\ \E request \in RegistrationRequests :
          LET r == register_instance(request)
          IN  /\ registry' = r.registry
              /\ response' = r.response
    /\ UNCHANGED <<model, clients>>
    /\ UNCHANGED <<instance, network>>

RequestPeers ==
    /\ \E name \in DeclaredInstances \cup {Undeclared} :
          response' = request_peers(name)
    /\ UNCHANGED <<registry, model, clients>>
    /\ UNCHANGED <<instance, network>>

DeregisterInstance ==
    /\ \E name \in DeclaredInstances \cup {Undeclared} :
          /\ registry' = deregister_instance(name)
          /\ response' = Answer("deregister_instance", name, <<>>, "SUCCESS")
    /\ UNCHANGED <<model, clients>>
    /\ UNCHANGED <<instance, network>>

\* The manager after start: nothing registered.
InitManager ==
    /\ NoInstance
    /\ NoNetwork
    /\ registry = <<>>
    /\ response = NoResponse
    /\ model \in Models
    /\ clients = <<>>

NextManager ==
    \/ RegisterInstance
    \/ RequestPeers
    \/ DeregisterInstance

SpecManager == InitManager /\ [][NextManager]_vars

\* C18: register_instance for a name that is not in the registry answers
\* SUCCESS and inserts the locations and ports of the request; for a name
\* that is in the registry it answers ERROR with the name in the error
\* message and leaves the registry, the entry of the name included, as it
\* was.
C18_RegisterOnce ==
    [][response'.request = "register_instance" =>
        LET request == response'.arguments
        IN  IF request.name \in DOMAIN registry
            THEN /\ response'.status = "ERROR"
                 /\ response'.error_message.name = request.name
                 /\ registry' = registry
            ELSE /\ response'.status = "SUCCESS"
                 /\ DOMAIN registry' = DOMAIN registry \cup {request.name}
                 /\ registry'[request.name] =
                        [locations |-> request.locations,
                         ports |-> request.ports]
                 /\ \A n \in DOMAIN registry : registry'[n] = registry[n]]_vars

C18_Witness ==
    /\ response.request = "register_instance"
    /\ response.status = "ERROR"
    /\ response.error_message.name = response.name
    /\ response.name \in DOMAIN registry
    /\ registry[response.name].locations # response.arguments.locations

\* C19: request_peers for a declared name answers PENDING whenever a
\* concrete peer instance of the requester is not registered at that
\* moment and SUCCESS only when all of them are; the registry is as it
\* was before the request.
C19_PendingUntilAllPeersRegistered ==
    [][(response'.request = "request_peers"
          /\ response'.name \in DeclaredInstances) =>
        /\ registry' = registry
        /\ response'.status =
              IF PeerInstances(response'.name) \subseteq DOMAIN registry
              THEN "SUCCESS" ELSE "PENDING"
        /\ response'.status = "SUCCESS" =>
              {l.instance_name : l \in response'.peer_locations}
                  = PeerInstances(response'.name)]_vars

C19_Witness ==
    /\ response.request = "request_peers"
    /\ response.status = "PENDING"
    /\ response.name = Reference("meso", <<0>>)
    /\ PeerInstances(response.name) \cap DOMAIN registry # {}
    /\ Reference("macro", <<>>) \in DOMAIN registry
    /\ Cardinality(PeerInstances(response.name) \ DOMAIN registry) = 1

\* C20: request_peers for a name whose kernel the topology does not
\* declare answers ERROR with the name in the error message, whatever is
\* registered.
C20_UnknownInstanceIsAnError ==
    [][(response'.request = "request_peers"
          /\ response'.name.kernel \notin Kernels) =>
        /\ response'.status = "ERROR"
        /\ response'.error_message.name = response'.name]_vars

C20_Witness ==
    /\ response.request = "request_peers"
    /\ response.name = Undeclared
    /\ response.status = "ERROR"
    /\ DeclaredInstances \cup {Undeclared} \subseteq DOMAIN registry

SuccessfulRequest ==
    response.request = "request_peers" /\ response.status = "SUCCESS"

Range(seq) == {seq[i] : i \in DOMAIN seq}

\* C21: the conduits of a SUCCESS answer of request_peers are exactly the
\* conduits of the model with the kernel of the requester at the sending
\* or the receiving end, each once and in the order of the model; a
\* conduit between two other kernels is not among them.
C21_ConduitsOfTheKernel ==
    SuccessfulRequest =>
        LET kernel == response.name.kernel
            own(c) == c.sender[1] = kernel \/ c.receiver[1] = kernel
        IN  /\ Range(response.conduits) = {c \in Range(TopologyConduits) : own(c)}
            /\ Len(response.conduits) = Cardinality(Range(response.conduits))
            /\ \A i, j \in DOMAIN response.conduits :
                  i < j =>
                    \E a, b \in DOMAIN TopologyConduits :
                        /\ a < b
                        /\ TopologyConduits[a] = response.conduits[i]
                        /\ TopologyConduits[b] = response.conduits[j]

C21_Witness ==
    /\ SuccessfulRequest
    /\ model = "macro_meso_micro"
    /\ response.name = Reference("macro", <<>>)
    /\ response.conduits =
          << [sender |-> <<"macro", "out">>, receiver |-> <<"meso", "in">>],
             [sender |-> <<"meso", "out">>, receiver |-> <<"macro", "in">>] >>

\* The instances of a peer kernel an instance talks to, by the number of
\* index dimensions of the two.
ExpectedPeers(name) ==
    {peer \in DeclaredInstances :
        /\ peer.kernel \in PeerKernels(name.kernel)
        /\ LET p == peer.index
               n == name.index
           IN  IF Len(p) > Len(n)
               THEN \A j \in 1..Len(n) : p[j] = n[j]
               ELSE \A j \in 1..Len(p) : p[j] = n[j]}

\* C22: the peer_locations of a SUCCESS answer of request_peers hold, for
\* every concrete peer instance of the requester and for no other
\* instance, the locations it registered: of a peer kernel with more
\* index dimensions all instances whose index extends that of the
\* requester, of one with fewer dimensions the instance whose index is
\* the prefix.
C22_LocationsOfEveryPeer ==
    [][(response'.request = "request_peers"
          /\ response'.status = "SUCCESS") =>
        /\ {l.instance_name : l \in response'.peer_locations}
              = ExpectedPeers(response'.name)
        /\ \A l \in response'.peer_locations :
              /\ l.instance_name \in DOMAIN registry
              /\ l.locations = registry[l.instance_name].locations]_vars

C22_Witness ==
    /\ SuccessfulRequest
    /\ model = "macro_micro"
    /\ response.name = Reference("macro", <<>>)
    /\ Cardinality(response.peer_locations) = MaxMult * MicroWidth
    /\ \E l \in response.peer_locations :
          /\ l.instance_name = Reference("micro", <<MaxMult - 1, MicroWidth - 1>>)
          /\ l.locations = << Location("direct", l.instance_name) >>

\* ---------------------------------------------------------------- start-up
\* The start of every instance of the model: ComputeElement.__init__ calls
\* _register and then _connect, whose request_peers the client repeats
\* while the manager answers PENDING.
OwnRegistration(name) ==
    [name |-> name, locations |-> << Location("direct", name) >>,
     ports |-> DeclaredPorts]

\* after_request_peers of a client that takes every answer for its peers.
after_request_peers_any_answer(status) == "connected"

\* after_request_peers of a client that gives up at the first PENDING.
after_request_peers_no_retry(status) ==
    CASE status = "SUCCESS" -> "connected"
      [] OTHER -> "failed"

\* The position of a client after an answer of request_peers.
after_request_peers(status) ==
    CASE status = "SUCCESS" -> "connected"
      [] status = "PENDING" -> "registered"
      [] OTHER -> "failed"

\* _register of instance name.
ClientRegister(name) ==
    /\ clients[name] = "start"
    /\ LET r == register_instance(OwnRegistration(name))
       IN  /\ registry' = r.registry
           /\ clients' = [clients EXCEPT ![name] =
                            IF r.response.status = "SUCCESS"
                            THEN "registered" ELSE "failed"]
    /\ UNCHANGED <<response, model>>
    /\ UNCHANGED <<instance, network>>

\* One request_peers of the retry loop of _connect of instance name.
ClientRequestPeers(name) ==
    /\ clients[name] = "registered"
    /\ clients' = [clients EXCEPT ![name] =
                     after_request_peers(request_peers(name).status)]
    /\ UNCHANGED <<registry, response, model>>
    /\ UNCHANGED <<instance, network>>

\* The manager is up and no instance has started.  The names are those
\* of both models; an instance the model does not declare never starts.
AllNames ==
    {Reference("macro", <<>>)}
    \cup {Reference("meso", index) : index \in Indices(<<MaxMult>>)}
    \cup {Reference("micro", index) : index \in Indices(<<MaxMult, MicroWidth>>)}

InitStartup ==
    /\ NoInstance
    /\ NoNetwork
    /\ registry = <<>>
    /\ response = NoResponse
    /\ model \in Models
    /\ clients = [name \in AllNames |->
                    IF name \in expected_elements THEN "start" ELSE "absent"]

NextStartup ==
    \/ \E name \in AllNames : ClientRegister(name)
    \/ \E name \in AllNames : ClientRequestPeers(name)

\* A step of the start of instance name.
Startup(name) == ClientRegister(name) \/ ClientRequestPeers(name)

\* Every instance is a process of its own that runs whenever it can.
SpecStartup ==
    /\ InitStartup
    /\ [][NextStartup]_vars
    /\ \A name \in AllNames : WF_vars(Startup(name))

\* An instance is in the registry from its _register on, and it is
\* connected only with all its peers registered.
RegisteredBeforeConnected ==
    \A name \in DeclaredInstances :
        /\ clients[name] # "failed"
        /\ clients[name] = "start" <=> name \notin DOMAIN registry
        /\ clients[name] = "connected" =>
              PeerInstances(name) \subseteq DOMAIN registry

AllConnected ==
    \A name \in DeclaredInstances : clients[name] = "connected"

RECURSIVE Product(_)
Product(dimensions) ==
    IF dimensions = <<>> THEN 1
    ELSE Head(dimensions) * Product(Tail(dimensions))

\* The positions of the list of expected instances that name an instance of
\* the kernel.
PositionsOf(kernel) ==
    {k \in DOMAIN elements_for_model : elements_for_model[k].kernel = kernel}

\* C24: the list of expected instances holds, for a compute element without
\* multiplicity, its bare name once and nothing else, and for one with
\* multiplicity [n1, ..., nk] exactly n1 * ... * nk names, all distinct, one
\* for every index with 0 <= ij < nj and none for any other index; it names
\* no other compute element.
C24_ExpectedInstancesOfTheModel ==
    /\ \A k \in DOMAIN elements_for_model :
           elements_for_model[k].kernel \in Kernels
    /\ \A kernel \in Kernels :
           LET dimensions == Multiplicity(kernel)
               names == {elements_for_model[k] : k \in PositionsOf(kernel)}
           IN  /\ Cardinality(PositionsOf(kernel)) = Product(dimensions)
               /\ Cardinality(names) = Product(dimensions)
               /\ dimensions = <<>> => names = {Reference(kernel, <<>>)}
               /\ \A name \in names : Len(name.index) = Len(dimensions)
               /\ \A index \in [1..Len(dimensions) -> 0..(MaxMult + MicroWidth)] :
                      Reference(kernel, index) \in names
                          <=> \A j \in 1..Len(dimensions) :
                                  index[j] < dimensions[j]

\* Every expected instance of the three-element model has registered: the
\* bare macro, the last meso and the last micro among them.
C24_Witness ==
    /\ model = "macro_meso_micro"
    /\ Reference("macro", <<>>) \in DOMAIN registry
    /\ Reference("meso", <<MaxMult - 1>>) \in DOMAIN registry
    /\ Reference("micro", <<MaxMult - 1, MicroWidth - 1>>) \in DOMAIN registry
    /\ Cardinality(DOMAIN registry) = Len(elements_for_model)

\* ---------------------------------------------------------------------
\* The f_init cache between two calls of reuse_instance

\* A step that is a user call of receive_message or
\* receive_message_with_parameters.
UserReceive == running /\ pc' = "user" /\ calls' = calls

\* A step inside reuse_instance up to the end of the pre-receive.
ReuseInstanceFillsCache ==
    \/ pc = "user" /\ calls' = calls + 1
    \/ pc = "pre_receive" /\ cursor.i <= Len(pre_receive_f_init)

\* C25: a successful user receive on an F_INIT port that returns a cached
\* message removes exactly the entry of its (port_name, slot) and leaves
\* every other entry as it was; once every (port, slot) pre-received in
\* the cycle has been handed to the user the cache is empty; and no step
\* outside reuse_instance adds an entry or changes one.
C25_CacheEmptiedAsConsumed ==
    [][/\ UserReceive =>
            LET key == <<last'.port_name, last'.slot>>
            IN  /\ (last'.status = "ok" /\ key \in DOMAIN f_init_cache) =>
                       /\ last'.message = f_init_cache[key]
                       /\ DOMAIN f_init_cache' = DOMAIN f_init_cache \ {key}
                /\ (last'.status = "ok" /\ key \notin DOMAIN f_init_cache) =>
                       f_init_cache' = f_init_cache
                /\ (\A k \in ConnectedFInitKeys :
                        k \in DOMAIN handed' /\ handed'[k] >= 1) =>
                       f_init_cache' = <<>>
       /\ ~ReuseInstanceFillsCache =>
            /\ DOMAIN f_init_cache' \subseteq DOMAIN f_init_cache
            /\ \A k \in DOMAIN f_init_cache' :
                   f_init_cache'[k] = f_init_cache[k]]_vars

\* Of two or more pre-received messages the user has just received one;
\* the others are still in the cache.
C25_Witness ==
    /\ running
    /\ Cardinality(ConnectedFInitKeys) >= 2
    /\ last.status = "ok"
    /\ <<last.port_name, last.slot>> \in ConnectedFInitKeys
    /\ f_init_cache # <<>>
    /\ DOMAIN f_init_cache = ConnectedFInitKeys \ {<<last.port_name, last.slot>>}

\* The events of reuse_instance are its blocking receives and its
\* ClosePort sends; it has no call that logs, so a warning would be an
\* event of kind "warning", which no action appends.
Warned == \E i \in DOMAIN trace : trace[i][1] = "warning"

\* C26: when reuse_instance is entered again while the cache still holds a
\* message the user did not receive in the previous cycle, the call warns
\* about it before the cache is reset.
C26_WarnsAboutUnconsumedMessage ==
    [][(/\ pc = "user" /\ calls >= 1 /\ calls' = calls + 1
        /\ f_init_cache # <<>>
        /\ pc' = "pre_receive") => Warned']_vars

\* ---------------------------------------------------------------------
\* The incoming half of the close protocol

\* The blocking receives of the incoming drain on a port, in order.
DrainsOf(port_name) ==
    SelectSeq(trace, LAMBDA e : e[1] = "drain" /\ e[2] = port_name)

HeadSlot(port_name) == IF ports[port_name].is_vector THEN 0 ELSE NoSlot

PassLength(port_name) ==
    IF ports[port_name].is_vector THEN ports[port_name].length ELSE 1

ConnectedSB ==
    {p \in PortNames : ports[p].operator \in {"S", "B"} /\ ports[p].connected}

\* A step that is one blocking receive of the incoming drain.
DrainStep ==
    /\ pc = "close_incoming"
    /\ Len(trace') = Len(trace) + 1
    /\ trace'[Len(trace')][1] = "drain"

\* The step that ends the incoming drain.
DrainEnds == pc = "close_incoming" /\ pc' # "close_incoming"

\* C27: the incoming drain receives on connected S and B ports only; on a
\* scalar port it receives without a slot and never again once a ClosePort
\* has arrived; on a vector port it receives slot 0, then 1..length-1, and
\* starts a further pass exactly when the slot-0 message of the last pass
\* was not a ClosePort, whatever arrived on the other slots; when the
\* drain ends every connected S or B port has been received on at least
\* once, in whole passes, up to a ClosePort on its head, and no other port
\* has been received on.
C27_IncomingDrain ==
    [][/\ DrainStep =>
            LET port_name == trace'[Len(trace')][2]
                slot == trace'[Len(trace')][3]
                before == Len(DrainsOf(port_name))
            IN  /\ port_name \in ConnectedSB
                /\ slot = IF ports[port_name].is_vector
                          THEN before % PassLength(port_name) ELSE NoSlot
                /\ slot = HeadSlot(port_name) =>
                       <<port_name, slot>> \notin seen_close
       /\ DrainEnds =>
            \A p \in PortNames :
                IF p \in ConnectedSB
                THEN /\ Len(DrainsOf(p)) >= PassLength(p)
                     /\ Len(DrainsOf(p)) % PassLength(p) = 0
                     /\ <<p, HeadSlot(p)>> \in seen_close
                ELSE DrainsOf(p) = <<>>]_vars

\* The drain of a connected vector port of length two or more has ended
\* after two passes: the first slot-0 message was not a ClosePort.
C27_Witness ==
    /\ returned(FALSE)
    /\ \E p \in ConnectedSB :
          /\ ports[p].is_vector
          /\ ports[p].length >= 2
          /\ Len(DrainsOf(p)) = 2 * ports[p].length
          /\ <<p, 0>> \in seen_close

\* ---------------------------------------------------------------------
\* The drain of an F_INIT port

\* The loop of dels over range(length) from slot on: Python's del of a key
\* that is not in the dict raises KeyError and leaves the dict as it is.
RECURSIVE del_range(_, _, _, _)
del_range(cache, port_name, slot, length) ==
    IF slot >= length THEN [status |-> "ok", cache |-> cache]
    ELSE IF <<port_name, slot>> \notin DOMAIN cache
    THEN [status |-> "KeyError", cache |-> cache]
    ELSE del_range(Without(cache, <<port_name, slot>>), port_name, slot + 1,
                   length)

\* __drain_f_init_port on a cache: the status (ok or the exception), the
\* cache afterwards and the drain it goes on to call.
drain_f_init_port(port_name, cache) ==
    IF <<port_name, NoSlot>> \in DOMAIN cache
    THEN [status |-> "ok",
          cache |-> Without(cache, <<port_name, NoSlot>>),
          drain |-> IF isinstance_ClosePort(cache[<<port_name, NoSlot>>])
                    THEN "none" ELSE "drain_incoming_port"]
    ELSE IF <<port_name, 0>> \in DOMAIN cache
    THEN LET deleted == del_range(Without(cache, <<port_name, 0>>),
                                  port_name, 0, ports[port_name].length)
         IN  [status |-> deleted.status,
              cache |-> deleted.cache,
              drain |-> IF deleted.status = "ok"
                           /\ ~isinstance_ClosePort(cache[<<port_name, 0>>])
                        THEN "drain_incoming_port" ELSE "none"]
    ELSE [status |-> "ok", cache |-> cache, drain |-> "none"]

\* The F_INIT ports whose head slot is in the cache.
HeadCached ==
    {p \in PortNames :
        /\ ports[p].operator = "F_INIT"
        /\ <<p, HeadSlot(p)>> \in DOMAIN f_init_cache}

\* C28: in the close protocol the drain of an F_INIT port whose head slot
\* is cached completes without error, leaves no cache entry of the port,
\* and goes on to the scalar drain of a scalar port or the vector drain of
\* a vector port exactly when the head payload is not a ClosePort.
C28_FInitDrainCompletes ==
    pc = "close_incoming" =>
        \A p \in HeadCached :
            LET r == drain_f_init_port(p, f_init_cache)
                head == f_init_cache[<<p, HeadSlot(p)>>]
            IN  /\ r.status = "ok"
                /\ \A key \in DOMAIN r.cache : key[1] # p
                /\ r.drain = IF isinstance_ClosePort(head) THEN "none"
                             ELSE IF ports[p].is_vector
                             THEN "drain_incoming_vector_port"
                             ELSE "drain_incoming_port"

\* The positions in the trace of the blocking receives of the incoming
\* drain.
DrainPositions == Kinds({"drain"})

\* C29: once the incoming drain has made its first blocking receive, the
\* ClosePort of every slot of every sending port has been sent, and each
\* such send is earlier than every receive of the drain.
C29_OutgoingClosedBeforeDrain ==
    DrainPositions # {} =>
        /\ \A p \in PortNames : \A slot \in SlotsOf(p) :
               allows_sending(ports[p].operator) =>
                   \E i \in DOMAIN trace :
                       /\ trace[i] = Event("close_port", p, slot)
                       /\ \A j \in DrainPositions : i < j
        /\ \A i \in Kinds({"close_port"}) : \A j \in DrainPositions : i < j

\* The drain is at its second blocking receive or further, after the
\* ClosePorts of a scalar and of a vector sending port.
C29_Witness ==
    /\ pc = "close_incoming"
    /\ Cardinality(DrainPositions) >= 2
    /\ Cardinality(Kinds({"close_port"})) = 1 + MaxLen

\* ---------------------------------------------------------------------
\* receive_message_with_parameters

\* A step that is a user call of receive_message_with_parameters on a
\* connected port.
ReceiveWithParameters ==
    /\ UserReceive
    /\ last'.op = "receive_message_with_parameters"
    /\ port_exists(last'.port_name)
    /\ ports[last'.port_name].connected

\* C30: on a connected port receive_message_with_parameters never returns
\* a message whose configuration is None.  On an S or B port it returns the
\* message with a configuration; on an F_INIT port after
\* reuse_instance(apply_overlay=False) the first receive of the cycle on a
\* slot returns the pre-received message with the configuration it came
\* with; on an F_INIT port after reuse_instance(apply_overlay=True) it
\* returns nothing and raises, the first time with the error that the
\* parameters have been applied already.
C30_WithParametersHasConfiguration ==
    [][ReceiveWithParameters =>
        LET key == <<last'.port_name, last'.slot>>
            f_init == ports[last'.port_name].operator = "F_INIT"
        IN  /\ last'.status = "ok" =>
                   last'.message.configuration # NoneConfiguration
            /\ ~f_init => last'.status = "ok"
            /\ (f_init /\ ~apply_overlay /\ key \notin tried) =>
                   /\ last'.status = "ok"
                   /\ last'.message = PreReceivedFor(key)
            /\ (f_init /\ apply_overlay) =>
                   last'.status = IF key \in tried THEN "receive_twice"
                                  ELSE "parameters_applied"]_vars

\* After reuse_instance(apply_overlay=False) the user has received a
\* pre-received message together with its overlay.
C30_Witness ==
    /\ running
    /\ ~apply_overlay
    /\ last.op = "receive_message_with_parameters"
    /\ last.status = "ok"
    /\ ports[last.port_name].operator = "F_INIT"
    /\ ports[last.port_name].connected
    /\ last.message.configuration = A1

\* ---------------------------------------------------------------------
\* The caller's message after send_message

\* C31: send_message leaves the caller's Message as it was passed: same
\* timestamp, next_timestamp, data and configuration, None if it was None;
\* so a Message without configuration that is sent again after the overlay
\* has changed goes out with the overlay of the later send.
C31_CallerMessageUnchanged ==
    [][(last'.op = "send_message" /\ last'.status = "ok") =>
        /\ sent'.caller = last'.message
        /\ (sent'.resent /\ sent.caller.configuration = NoneConfiguration) =>
               /\ sent'.caller.configuration = NoneConfiguration
               /\ sent'.message.configuration = overlay]_vars

\* A Message without configuration was sent in one cycle and again in a
\* later one, where another overlay is current.
C31_Witness ==
    /\ running
    /\ last.op = "send_message"
    /\ sent.resent
    /\ sent.caller.configuration = NoneConfiguration
    /\ sent.message.configuration = overlay
    /\ overlay # EmptyConfiguration

\* ---------------------------------------------------------------------
\* The cyclic coupling of macro and micro

CycleReferences == {c.receiver : c \in CycleConduits}

\* receive_message of the loop body of x on a connected S port: the
\* blocking receive returns once the outbox for the port holds a message;
\* then the compatibility check and the stripping of the configuration.
NetReceiveBlocking(x) ==
    LET e == elements[x] IN
    /\ e.pc = "body"
    /\ Head(e.todo).op = "receive_message"
    /\ operator_of(x, Head(e.todo).port_name) # "F_INIT"
    /\ LET reference == <<x, Head(e.todo).port_name>>
       IN  /\ outboxes[reference] # <<>>
           /\ LET r == retrieve(outboxes[reference])
              IN  /\ outboxes' = [outboxes EXCEPT ![reference] = r.outbox]
                  /\ retrieved' = [retrieved EXCEPT
                                     ![reference] = Append(@, r.message)]
                  /\ Put(x, IF check_compatibility(e.overlay,
                                                   r.message.configuration)
                            THEN [e EXCEPT
                                    !.received = Append(@,
                                        [r.message EXCEPT
                                           !.configuration = NoneConfiguration]),
                                    !.todo = Tail(e.todo),
                                    !.pc = IF Tail(e.todo) = <<>> THEN "reuse"
                                           ELSE "body"]
                            ELSE [e EXCEPT !.pc = "failed"])
    /\ UNCHANGED deposited
    /\ UNCHANGED <<instance, manager>>

\* One blocking receive of __close_incoming_ports of x, after the last
\* close_port call: the port is done when the message is a ClosePort.
NetDrainIncoming(x) ==
    LET e == elements[x] IN
    /\ e.pc = "close_outgoing"
    /\ e.todo = <<>>
    /\ e.drain # <<>>
    /\ LET reference == <<x, Head(e.drain)>>
       IN  /\ outboxes[reference] # <<>>
           /\ LET r == retrieve(outboxes[reference])
              IN  /\ outboxes' = [outboxes EXCEPT ![reference] = r.outbox]
                  /\ retrieved' = [retrieved EXCEPT
                                     ![reference] = Append(@, r.message)]
                  /\ Put(x, [e EXCEPT
                               !.drain = IF isinstance_ClosePort(r.message)
                                         THEN Tail(e.drain) ELSE e.drain])
    /\ UNCHANGED deposited
    /\ UNCHANGED <<instance, manager>>

\* The state in which macro and micro have been constructed; the loop
\* body of macro makes a finite number of iterations, possibly none.
InitCycle ==
    /\ NoInstance
    /\ NoManager
    /\ \E n \in 0..MaxIterations :
          elements = [x \in CycleInstances |->
                        IF x = "macro"
                        THEN [Element("macro") EXCEPT !.iterations = n]
                        ELSE Element("micro")]
    /\ outboxes = [r \in CycleReferences |-> <<>>]
    /\ deposited = [r \in CycleReferences |-> <<>>]
    /\ retrieved = [r \in CycleReferences |-> <<>>]

NextCycle ==
    \/ \E x \in CycleInstances : NetReceiveParameters(x)
    \/ \E x \in CycleInstances : NetPreReceive(x)
    \/ \E x \in CycleInstances : NetDecideReuse(x)
    \/ \E x \in CycleInstances : NetSendMessage(x)
    \/ \E x \in CycleInstances : NetReceiveMessage(x)
    \/ \E x \in CycleInstances : NetReceiveBlocking(x)
    \/ \E x \in CycleInstances : NetClosePort(x)
    \/ \E x \in CycleInstances : NetDrainIncoming(x)
    \/ \E x \in CycleInstances : NetDeregister(x)

\* A step of the thread of macro or micro.
CycleThread(x) ==
    \/ NetReceiveParameters(x)
    \/ NetPreReceive(x)
    \/ NetDecideReuse(x)
    \/ NetSendMessage(x)
    \/ NetReceiveMessage(x)
    \/ NetReceiveBlocking(x)
    \/ NetClosePort(x)
    \/ NetDrainIncoming(x)
    \/ NetDeregister(x)

\* Each of the two instances is a thread that runs whenever it can.
SpecCycle ==
    /\ InitCycle
    /\ [][NextCycle]_vars
    /\ \A x \in CycleInstances : WF_vars(CycleThread(x))

\* The outbox a blocking receive of x waits on, if x is at one.
WaitsOn(x) ==
    LET e == elements[x] IN
    CASE e.pc = "pre_receive" /\ e.todo # <<>> -> {<<x, Head(e.todo)>>}
      [] e.pc = "body" /\ e.todo # <<>>
            /\ Head(e.todo).op = "receive_message"
            /\ operator_of(x, Head(e.todo).port_name) # "F_INIT" ->
                {<<x, Head(e.todo).port_name>>}
      [] e.pc = "close_outgoing" /\ e.todo = <<>> /\ e.drain # <<>> ->
                {<<x, Head(e.drain)>>}
      [] OTHER -> {}

\* x is in a blocking receive for which no message is there.
Blocked(x) == \E r \in WaitsOn(x) : outboxes[r] = <<>>

CycleShutDown ==
    \A x \in CycleInstances :
        LET e == elements[x] IN
        /\ e.pc = "done"
        /\ ~e.registered
        /\ e.results # <<>>
        /\ ~e.results[Len(e.results)]

\* C32: in the cyclic coupling of macro and micro no instance fails, never
\* are both instances in a blocking receive with nothing to receive, and
\* every run ends with reuse_instance of both having returned false and
\* both deregistered, macro after its iterations and micro after as many
\* cycles.
C32_CyclicShutdownTerminates ==
    /\ [](/\ ~(Blocked("macro") /\ Blocked("micro"))
          /\ \A x \in CycleInstances : elements[x].pc # "failed"
          /\ elements["micro"].bodies <= elements["macro"].iterations)
    /\ <>[]CycleShutDown

\* Both are shut down after the largest number of iterations, each of
\* which macro got an answer for.
C32_Witness ==
    /\ CycleShutDown
    /\ elements["macro"].iterations = MaxIterations
    /\ Len(elements["macro"].received) = MaxIterations
    /\ elements["micro"].bodies = MaxIterations
    /\ elements["micro"].results[1]

\* ---------------------------------------------------------------------
\* ClosePort on muscle_parameters_in

\* The current reuse_instance call got a ClosePort on muscle_parameters_in.
ParametersClosed == calls > 0 /\ isinstance_ClosePort(parameters_message)

\* C33: a ClosePort on muscle_parameters_in leaves the overlay as the
\* cycle before left it and raises nothing; the call then goes through
\* the pre-receive as every call does: one blocking receive for every
\* slot of every connected F_INIT port, with apply_overlay each followed
\* by the compatibility check against the overlay, which ends the call
\* with the parallel-universe error when it fails; only after the last of
\* them does the call answer, and it answers false.
C33_ClosedParametersKeepOverlay ==
    [][/\ (calls' = calls + 1
             /\ isinstance_ClosePort(parameters_message')) =>
            /\ overlay' = overlay
            /\ pc' = "pre_receive"
       /\ (ParametersClosed /\ pc = "pre_receive"
             /\ Len(pre_received') = Len(pre_received) + 1) =>
            LET got == pre_received'[Len(pre_received')].message
            IN  /\ Len(pre_received) < Cardinality(ConnectedFInitKeys)
                /\ apply_overlay =>
                       (pc' = "failed" <=>
                            ~check_compatibility(overlay', got.configuration))
                /\ ~apply_overlay => pc' = "pre_receive" /\ overlay' = overlay
       /\ (ParametersClosed /\ pc = "pre_receive"
             /\ pc' \notin {"pre_receive", "failed"}) =>
            /\ Len(pre_received) = Cardinality(ConnectedFInitKeys)
            /\ pc' = "close_incoming"
            /\ ~do_reuse']_vars

\* A second call got the ClosePort; the overlay of the first cycle is
\* still there, the pre-received message matched it, and the call has
\* answered false.
C33_Witness ==
    /\ returned(FALSE)
    /\ calls = 2
    /\ ParametersClosed
    /\ apply_overlay
    /\ overlay = A2
    /\ Len(pre_received) >= 1
    /\ \A i \in 1..Len(pre_received) :
          ~isinstance_ClosePort(pre_received[i].message)

\* ---------------------------------------------------------------------
\* The overlay from one cycle to the next without muscle_parameters_in

\* A step that is one pass of the pre_receive closure.
PreReceiveStep ==
    pc = "pre_receive" /\ Len(pre_received') = Len(pre_received) + 1

\* C34: with muscle_parameters_in not connected every reuse_instance call
\* starts from the empty overlay, so with apply_overlay the first F_INIT
\* message of a cycle is accepted with whatever overlay it carries, also
\* one that differs from the overlay of the cycle before, and its overlay
\* is adopted; a later F_INIT message of the same cycle that carries a
\* non-empty overlay different from the non-empty overlay of an earlier
\* one is rejected with the parallel-universe error.
C34_OverlayDoesNotPersist ==
    [][/\ (calls' = calls + 1 /\ ~parameters_in) =>
            /\ overlay' = EmptyConfiguration
            /\ pc' = "pre_receive"
       /\ (PreReceiveStep /\ ~parameters_in /\ apply_overlay) =>
            LET got == pre_received'[Len(pre_received')].message.configuration
            IN  /\ pre_received = <<>> =>
                       /\ pc' = "pre_receive"
                       /\ overlay' = got
                /\ (/\ got # EmptyConfiguration
                    /\ \E i \in 1..Len(pre_received) :
                          LET c == pre_received[i].message.configuration
                          IN  c # EmptyConfiguration /\ c # got) =>
                       /\ pc' = "failed"
                       /\ error' = "parallel_universe"]_vars

\* A second cycle in which two F_INIT messages with the overlay A2 were
\* accepted.
C34_Witness ==
    /\ returned(TRUE)
    /\ calls = 2
    /\ ~parameters_in
    /\ apply_overlay
    /\ overlay = A2
    /\ Len(pre_received) = 2
    /\ \A i \in 1..2 : pre_received[i].message.configuration = A2

\* ---------------------------------------------------------------------
\* A failed receive_message_with_parameters

\* C35: when receive_message_with_parameters on an F_INIT port raises
\* because the configuration of the cached message was applied already,
\* the entry of that (port, slot) is gone from the cache and the other
\* entries are as they were; a receive_message on the same (port, slot)
\* right after it raises the receive-twice error.
C35_FailedReceiveLosesMessage ==
    [][UserReceive =>
        LET key == <<last'.port_name, last'.slot>>
        IN  /\ last'.status = "parameters_applied" =>
                   /\ last'.op = "receive_message_with_parameters"
                   /\ key \in DOMAIN f_init_cache
                   /\ f_init_cache' = Without(f_init_cache, key)
            /\ (/\ last.status = "parameters_applied"
                /\ key = <<last.port_name, last.slot>>) =>
                   /\ last'.status = "receive_twice"
                   /\ f_init_cache' = f_init_cache]_vars

\* After the failed receive_message_with_parameters the user has called
\* receive_message on the same slot and got the receive-twice error; the
\* message was never handed over.
C35_Witness ==
    /\ running
    /\ apply_overlay
    /\ last.op = "receive_message"
    /\ last.status = "receive_twice"
    /\ <<last.port_name, last.slot>> \in tried
    /\ Handed(<<last.port_name, last.slot>>) = 0
    /\ <<last.port_name, last.slot>> \notin DOMAIN f_init_cache

\* ---------------------------------------------------------------------
\* The life of one instance

\* The instance that is followed from its construction to its end.
Self == CHOOSE name \in DOMAIN clients : TRUE

\* What one life leaves alone of the state of the instance.
life_unchanged ==
    <<ports, parameters_in, overlay, first_run, f_init_cache, pc,
      apply_overlay, do_reuse, cursor, parameters_message, pre_received,
      seen_close, error, last, tried, handed, sent>>

Log(kind, detail) == Event(kind, detail, NoSlot)

\* A peer of the instance registers.
LifePeerRegisters ==
    /\ \E peer \in PeerInstances(Self) \ DOMAIN registry :
          LET r == register_instance(OwnRegistration(peer))
          IN  /\ registry' = r.registry
              /\ response' = r.response
    /\ UNCHANGED <<model, clients, trace, calls, results, registered,
                   is_shut_down, life_unchanged, network>>

\* _register in __init__.
LifeRegister ==
    /\ clients[Self] = "start"
    /\ LET r == register_instance(OwnRegistration(Self))
       IN  /\ registry' = r.registry
           /\ response' = r.response
           /\ registered' = (r.response.status = "SUCCESS")
           /\ clients' = [clients EXCEPT ![Self] =
                            IF r.response.status = "SUCCESS"
                            THEN "registered" ELSE "failed"]
    /\ trace' = Append(trace, Log("register_instance", ""))
    /\ UNCHANGED <<model, calls, results, is_shut_down, life_unchanged,
                   network>>

\* One request_peers of the retry loop in _connect.
LifeRequestPeers ==
    /\ clients[Self] = "registered"
    /\ LET r == request_peers(Self)
       IN  /\ r.status = "PENDING" =>
                  Count(Log("request_peers", "PENDING")) < MaxPolls
           /\ response' = r
           /\ clients' = [clients EXCEPT ![Self] =
                            after_request_peers(r.status)]
           /\ trace' = Append(trace, Log("request_peers", r.status))
    /\ UNCHANGED <<registry, model, calls, results, registered,
                   is_shut_down, life_unchanged, network>>

\* The rest of _connect: Communicator.connect and get_configuration; then
\* __init__ returns.
LifeConnect ==
    /\ clients[Self] = "connected"
    /\ clients' = [clients EXCEPT ![Self] = "user"]
    /\ trace' = trace \o << Log("connect", ""), Log("get_configuration", "") >>
    /\ UNCHANGED <<registry, response, model, calls, results, registered,
                   is_shut_down, life_unchanged, network>>

\* A send_message or receive_message of the user, which ends in a call of
\* the communicator.
LifeUserCall ==
    /\ clients[Self] = "user"
    /\ Cardinality(Kinds({"send_message", "receive_message"})) < MaxSend
    /\ \E op \in {"send_message", "receive_message"} :
          trace' = Append(trace, Log(op, ""))
    /\ UNCHANGED <<registry, response, model, clients, calls, results,
                   registered, is_shut_down, life_unchanged, network>>

\* A reuse_instance call: it raises, or it answers true, or it answers
\* false after the close protocol, the shutdown of the communicator and
\* _deregister.  After the answer false the user calls nothing more.
LifeReuseInstance ==
    /\ clients[Self] = "user"
    /\ calls < MaxCalls
    /\ calls' = calls + 1
    /\ \E outcome \in {"raises", "true", "false"} :
          CASE outcome = "raises" ->
                  /\ clients' = [clients EXCEPT ![Self] = "failed"]
                  /\ UNCHANGED <<registry, response, trace, results,
                                 registered, is_shut_down>>
            [] outcome = "true" ->
                  /\ results' = Append(results, TRUE)
                  /\ UNCHANGED <<registry, response, clients, trace,
                                 registered, is_shut_down>>
            [] OTHER ->
                  /\ results' = Append(results, FALSE)
                  /\ trace' = trace \o << Log("close_ports", "") >>
                                    \o shutdown_and_deregister
                  /\ is_shut_down' = TRUE
                  /\ registered' = FALSE
                  /\ registry' = deregister_instance(Self)
                  /\ response' = Answer("deregister_instance", Self, <<>>,
                                        "SUCCESS")
                  /\ clients' = [clients EXCEPT ![Self] = "done"]
    /\ UNCHANGED <<model, life_unchanged, network>>

\* The manager is up, nothing is registered, and the instance, any one of
\* the model, is about to be constructed.
InitLife ==
    /\ NoInstance
    /\ NoNetwork
    /\ registry = <<>>
    /\ response = NoResponse
    /\ model \in Models
    /\ \E name \in DeclaredInstances : clients = (name :> "start")

NextLife ==
    \/ LifePeerRegisters
    \/ LifeRegister
    \/ LifeRequestPeers
    \/ LifeConnect
    \/ LifeUserCall
    \/ LifeReuseInstance

SpecLife == InitLife /\ [][NextLife]_vars

ManagerCalls ==
    SelectSeq(trace, LAMBDA e : e[1] \in {"register_instance",
                                          "request_peers",
                                          "get_configuration",
                                          "deregister"})

\* C36: the calls of an instance to the manager are, in this order, one
\* register_instance, request_peers calls of which all but the last are
\* answered PENDING and the last SUCCESS, one get_configuration, and, when
\* reuse_instance has answered false, one deregister_instance and none
\* else; every user send or receive comes after the communicator was
\* connected, which is after the successful request_peers; the shutdown
\* of the communicator comes before the deregistration; and after it the
\* registry has no entry of the instance.
C36_LifecycleOrder ==
    LET m == ManagerCalls
        n == Len(m)
        polls == {i \in 1..n : m[i][1] = "request_peers"}
        configured == {i \in 1..n : m[i][1] = "get_configuration"}
        deregistered == {i \in 1..n : m[i][1] = "deregister"}
    IN  /\ n > 0 => m[1][1] = "register_instance"
        /\ \A i \in 2..n : m[i][1] # "register_instance"
        /\ \A i \in polls :
              /\ \A j \in 2..i : j \in polls
              /\ m[i][2] \in {"SUCCESS", "PENDING"}
              /\ m[i][2] = "SUCCESS" => (i = n \/ i + 1 \in configured)
              /\ m[i][2] = "PENDING" => (i = n \/ i + 1 \in polls)
        /\ \A i \in configured :
              /\ i - 1 \in polls /\ m[i - 1][2] = "SUCCESS"
              /\ \A j \in (i + 1)..n : j \in deregistered
        /\ Cardinality(deregistered) <= 1
        /\ (results # <<>> /\ ~results[Len(results)]) <=>
               Cardinality(deregistered) = 1
        /\ \A i \in Kinds({"send_message", "receive_message"}) :
              \E j \in Kinds({"connect"}) :
                  /\ j < i
                  /\ \E k \in 1..(j - 1) :
                        trace[k] = Log("request_peers", "SUCCESS")
        /\ \A i \in Kinds({"deregister"}) :
              /\ \E j \in Kinds({"shutdown"}) : j < i
              /\ \E j \in Kinds({"get_configuration"}) : j < i
        /\ clients[Self] = "done" =>
              /\ Cardinality(deregistered) = 1
              /\ Self \notin DOMAIN registry

\* The life has ended with reuse_instance answering false, after a
\* request_peers that was answered PENDING, a cycle of the reuse loop and
\* a user call.
C36_Witness ==
    /\ clients[Self] = "done"
    /\ results = <<TRUE, FALSE>>
    /\ Count(Log("request_peers", "PENDING")) >= 1
    /\ Kinds({"send_message", "receive_message"}) # {}
    /\ Self \notin DOMAIN registry

====
